---- MODULE Spec2Model ----
(***************************************************************************)
(* The discovery-health-routing gateway of Zeroconf-AI                     *)
(* (src/clients/local_proxy_client.py): the ServiceDiscovery registry fed  *)
(* by the zeroconf Listener, the HealthMonitor thread and                  *)
(* ModelRouter.route_request.                                              *)
(*                                                                         *)
(* AIService objects are mutable and shared by reference: the registry     *)
(* dict, the list get_all_services() returns, and the router's candidate   *)
(* list all point at the same objects.  The heap is therefore explicit:    *)
(* an object is named by its index in heap, the registry is the insertion- *)
(* ordered sequence of the objects the dict holds.                         *)
(***************************************************************************)
EXTENDS Integers, Sequences, FiniteSets, TLC

(***************************************************************************)
(* Bounds and inputs                                                       *)
(***************************************************************************)
\* AIService objects ever constructed (one per resolved add/update event).
MaxObjects == 2
\* Largest max_retries a direct caller passes to route_request.
MaxRetriesArg == 2
\* Largest registry route_request is called on directly.
MaxServices == 2
\* Most chunks in one backend response.
MaxChunks == 3
\* The backends that register themselves.
MaxBackends == 2
\* The longest prompt, in words.
MaxWords == 152
\* The /v1/complete requests of a run, which may all be in progress at once.
MaxRequests == 2
\* How many times the clock advances.
MaxTicks == 2
\* src/config/settings.py
MaxRequestsPerHour == 100
\* The window of get_hourly_request_count, in seconds.
Hour == 3600
\* The clock is read at instants this many seconds apart; what happens
\* between two readings takes any part of that time.
TickSeconds == 1800
Requests == 1..MaxRequests
Apps == {"A", "B"}
Timestamps == {t * TickSeconds : t \in 0..MaxTicks}
\* The rows of usage_log by the columns the queries read.
Rows == [app_id : Apps, timestamp : Timestamps]
\* Outcome of the POST to the upstream API.
UpstreamResults ==
    {[kind |-> "timeout"], [kind |-> "response", status |-> 200],
     [kind |-> "response", status |-> 402], [kind |-> "response", status |-> 429],
     [kind |-> "response", status |-> 500]}

Names == {"A", "B"}
\* The service names the chat client's browser reports.
ClientNames == {"A", "B", "C"}
ServiceNames == <<"A", "B", "C", "D">>
\* What a backend's /v1/models answer lists.
ModelLists == {<<>>, <<"m1">>}
\* model_id of the chat requests.
RequestModels == {"m1"}
\* info.priority of an advertisement; 0 is falsy in Python.
AdvPriorities == {0, 10}
DefaultPriority == 50
DefaultMaxRetries == 2
NoInfo == [resolved |-> FALSE]
\* JSON values of a chat-completions body: a member may be missing, a string,
\* a boolean, an object or an array.
Absent == [type |-> "absent"]
JsonString(value) == [type |-> "string", value |-> value]
JsonBool(value) == [type |-> "boolean", value |-> value]
JsonObject == [type |-> "object"]
JsonArray(items) == [type |-> "array", items |-> items]
Message(role, content) == [type |-> "message", role |-> role, content |-> content]

MessageLists ==
    {<<>>,
     <<Message(JsonString("user"), JsonString("hi"))>>,
     <<Message(JsonString("system"), JsonString("be brief")),
       Message(JsonString("assistant"), JsonString("ok"))>>,
     <<Message(JsonString("tool"), JsonString("hi"))>>,
     <<Message(JsonString("user"), JsonString("hi")),
       Message(Absent, JsonString("hi"))>>,
     <<Message(JsonString("user"), Absent)>>,
     <<Message(JsonString("user"), JsonObject)>>}

\* The bodies posted to /v1/chat/completions.
RequestBodies ==
    [model : {Absent, JsonObject} \cup {JsonString(m) : m \in RequestModels},
     messages : {Absent, JsonString("hi")} \cup {JsonArray(l) : l \in MessageLists},
     stream : {Absent, JsonBool(FALSE), JsonString("no")}]

\* The zeroconf thread of the gateway, its monitor thread, a request handler,
\* and the zeroconf thread of SaturnDiscovery.
Threads == {"listener", "monitor", "handler", "saturn"}
\* discovery.lock of the gateway and SaturnServiceListener.lock.
Locks == {"discovery", "saturn"}

Backends == 1..MaxBackends
\* The --priority a backend is started with.
DesiredPriorities == {50, 51}
\* The priorities other services on the network may advertise.
ForeignPriorities == {50, 52}

\* The model ids the Open WebUI pipe meets in /v1/models answers.
ModelIds == {"m"}
\* What GET /v1/models of one backend lists, in order; nothing when the
\* request fails.  A backend may list an id more than once.
ModelListings == {<<>>, <<"m">>, <<"m", "m">>}
\* The priority each service the pipe discovers advertises.
PipePriority ==
    [name \in ClientNames |->
        IF name = "A" THEN 30 ELSE IF name = "B" THEN 10 ELSE 20]
\* body["model"] as _parse_model_string splits it; "" is a missing part.
ModelStrings ==
    [service_name : ClientNames \cup {""}, model_id : ModelIds \cup {""}]
\* Outcome of requests.post and raise_for_status in Pipe._make_request.
PipePostResults == {"ok", "timeout", "http_500"}

\* ServiceInfo as SaturnServiceListener reads it: the priority TXT property
\* is absent, a number, or not a number.
SaturnInfos ==
    {NoInfo} \cup
    [resolved : {TRUE}, addresses : {<<>>, <<"10.0.0.1">>}, port : {8080},
     priority : AdvPriorities, txt_priority : {"", "7", "x"}]

\* zeroconf ServiceInfo as add_service reads it: addresses, port, priority.
Infos ==
    {NoInfo} \cup
    [resolved : {TRUE}, addresses : {<<>>, <<"10.0.0.1">>}, port : {0, 8080},
     priority : AdvPriorities]

\* Outcome of requests.post in route_request: an exception, or a response with
\* a status code and a body.
PostResults ==
    {[kind |-> "timeout"], [kind |-> "conn_error"],
     [kind |-> "response", status |-> 200, body |-> "choices"],
     [kind |-> "response", status |-> 200, body |-> "no_choices"],
     [kind |-> "response", status |-> 200, body |-> "not_json"],
     [kind |-> "response", status |-> 500, body |-> "choices"]}

\* Outcome of requests.get(url/v1/models) in _fetch_models.
\* A 200 response carries a body that is not JSON ("not_json"), JSON from
\* which the ids cannot be read, such as an entry without "id"
\* ("malformed"), or a model list ("models").
FetchResults ==
    {[kind |-> "conn_error"], [kind |-> "timeout"],
     [kind |-> "response", status |-> 500, body |-> "models", ids |-> <<>>],
     [kind |-> "response", status |-> 200, body |-> "not_json", ids |-> <<>>],
     [kind |-> "response", status |-> 200, body |-> "malformed", ids |-> <<>>]}
    \cup [kind : {"response"}, status : {200}, body : {"models"}, ids : ModelLists]

\* Outcome of requests.get(url/v1/health) in _check_health.
HealthResults ==
    {[kind |-> "conn_error"], [kind |-> "timeout"],
     [kind |-> "response", status |-> 200],
     [kind |-> "response", status |-> 500]}

\* What response.iter_content yields: two well-formed events, the empty
\* chunk, bytes that are not valid UTF-8, and the [DONE] terminator.
Chunks == {"c1", "c2", "", "bad", "[DONE]"}

RECURSIVE SeqsUpTo(_, _)
SeqsUpTo(S, n) ==
    IF n = 0 THEN {<<>>}
    ELSE SeqsUpTo(S, n - 1)
         \cup {Append(q, x) : q \in {r \in SeqsUpTo(S, n - 1) : Len(r) = n - 1},
                              x \in S}

\* The bodies of a backend's streaming response.
Streams == SeqsUpTo(Chunks, MaxChunks)

None == [none |-> TRUE]
\* The heap slot of an object nothing references any more.
Freed == [freed |-> TRUE]

(***************************************************************************)
(* State                                                                   *)
(***************************************************************************)
VARIABLES
    heap,        \* AIService objects, by object id (index)
    services,    \* ServiceDiscovery.services: object ids in dict insertion order
    mpc,         \* HealthMonitor._monitor_loop position
    mServices,   \* _monitor_loop: services (list returned by get_all_services)
    mIdx,        \* _monitor_loop: index of the for loop
    mWas,        \* _monitor_loop: was_healthy
    rpc,         \* route_request position
    rModel,      \* route_request: model_id
    rStream,     \* route_request: is_streaming
    rMaxRetries, \* route_request: max_retries
    rServices,   \* route_request: services
    rHealthy,    \* route_request: healthy_services
    rCandidates, \* route_request: candidates
    rIdx,        \* route_request: index of the for loop over candidates[:max_retries]
    rLastError,  \* route_request: last_error
    rResult,     \* route_request: what the call returned or raised
    lastLog,     \* the "<name> is now <status>" line of the monitor's last step, if any
    posts,       \* history: the requests.post calls of the current route_request,
                 \* each with the service posted to and the outcome
    mBefore,     \* history: the probed record's fields when its probe began
    probed,      \* history: objects that completed at least one probe
    rStart,      \* history: the candidates as the registry stood at the call's snapshot
    lError,      \* the exception the latest listener callback raised, if any
    apiResult,   \* what the latest GET /v1/health or GET /v1/models answered, or
                 \* the latest rejection of a chat-completions body
    gpc,         \* chat_completions.generate position
    gBackend,    \* the chunks response.iter_content has yet to yield
    gChunk,      \* generate: chunk
    gOut,        \* the chunks generate has yielded to the caller
    gDisconnected, \* the caller has disconnected
    gError,      \* the exception generate raised, if any
    gSent,       \* history: all the chunks of the backend's response
    gReadAfter,  \* history: chunks read from the backend after the disconnect
    gLate,       \* history: chunks read after the disconnect and yielded
    cServices,   \* client ServiceListener.services: records in dict insertion order
    cFired,      \* the callbacks the latest client listener event invoked, in order
    cEvent,      \* client ServiceListener._discovery_event is set
    sListener,   \* SaturnDiscovery.listener is not None
    sStarted,    \* SaturnDiscovery._started
    sServices,   \* SaturnServiceListener.services: records in dict insertion order
    sFound,      \* SaturnServiceListener.service_found is set
    wpc,         \* wait_for_services position
    wResult,     \* what wait_for_services returned
    wSignal,     \* history: whether service_found was set when the wait returned
    bpc,         \* per backend: down, scanned (find_available_priority returned) or registered
    bDesired,    \* per backend: the priority it was started with
    bObserved,   \* per backend: listener.priorities at the end of its scan
    bActual,     \* per backend: actual_priority
    foreign,     \* the priorities advertised by services outside these backends
    lockHolder,  \* per lock: the thread inside its `with` block, or "free"
    tpc,         \* per thread: where it is between lock and network operations
    tLeft,       \* per thread: iterations left of its for loop
    tCount,      \* len(discovery.services)
    alive,       \* the names whose backend answers GET /v1/health with 200
    mQuiet,      \* history: the names with no discovery event and no change of
                 \* liveness since the monitor's latest snapshot
    kGateway,    \* GatewayDiscovery.gateway
    kEvent,      \* GatewayDiscovery._discovery_event is set
    kZeroconf,   \* ZeroConfAIClient.zeroconf is not None
    kBrowser,    \* ZeroConfAIClient.browser is not None
    kpc,         \* ZeroConfAIClient.connect position
    kResult,     \* what connect returned
    selWords,    \* select_model: the words of prompt, as re.findall counts them
    selRequested, \* select_model: requested_model
    selResult,   \* the tier of MODELS select_model returned
    ledger,      \* the usage_log table: how many rows each (app_id, timestamp) has
    now,         \* time.time()
    uLock,       \* UsageTracker._lock: the request whose record_usage holds it
    qpc,         \* per /v1/complete request: position of the handler
    qApp,        \* per request: request.app_id
    qSeen,       \* per request: hourly_requests as line 121 read it
    qResult,     \* per request: the status code answered
    qForwarded,  \* history, per request: it was sent to the upstream API
    forwards,     \* history: how many requests were sent upstream at each time
    pDiscovered, \* Pipe.discovery.get_services(): the names of the services
    pCached,     \* Pipe.cached_services
    pMap,        \* Pipe.model_service_map: model id -> entries sorted by priority
    ppc,         \* Pipe.pipe position
    pPrimary,    \* pipe: service_name
    pModel,      \* pipe: model_id
    pFailover,   \* Pipe.valves.ENABLE_FAILOVER
    pFallbacks,  \* pipe: fallbacks
    pIdx,        \* pipe: index of the for loop over fallbacks
    pLastError,  \* pipe: last_error
    pResult,     \* pipe: what the call returned
    pRequests    \* history: the requests.post calls of the current pipe call

regVars == <<heap, services>>
monVars == <<mpc, mServices, mIdx, mWas>>
routeVars == <<rpc, rModel, rStream, rMaxRetries, rServices, rHealthy,
               rCandidates, rIdx, rLastError, rResult>>
histVars == <<posts, mBefore, probed, rStart>>
genVars == <<gpc, gBackend, gChunk, gOut, gDisconnected, gError, gSent,
             gReadAfter, gLate>>
\* src/client.py ServiceListener
clientVars == <<cServices, cFired, cEvent>>
\* The components beside the gateway.
\* src/owui_saturn.py SaturnDiscovery and its listener
saturnVars == <<sListener, sStarted, sServices, sFound, wpc, wResult, wSignal>>
\* The backends' registration (src/fallback_server.py, src/gemini_server.py)
arbVars == <<bpc, bDesired, bObserved, bActual, foreign>>
\* The threads' lock and network operations
lockVars == <<lockHolder, tpc, tLeft, tCount>>
sideVars == <<clientVars, saturnVars, arbVars, lockVars>>
\* The gateway's own state.
gatewayVars == <<regVars, monVars, routeVars, lastLog, histVars, lError,
                 apiResult, genVars>>
\* The components modelled beside the gateway's three threads.
\* The backends' liveness as the monitor's probes meet it
backendVars == <<alive, mQuiet>>
\* src/src/client.py GatewayDiscovery and ZeroConfAIClient.connect
connectVars == <<kGateway, kEvent, kZeroconf, kBrowser, kpc, kResult>>
\* src/src/models.py ModelRouter.select_model
selectVars == <<selWords, selRequested, selResult>>
\* src/server.py complete and src/src/usage_tracker.py UsageTracker
legacyVars == <<ledger, now, uLock, qpc, qApp, qSeen, qResult, qForwarded, forwards>>
\* src/owui_saturn.py Pipe: pipes and pipe
pipeVars == <<pDiscovered, pCached, pMap, ppc, pPrimary, pModel, pFailover, pFallbacks, pIdx, pLastError, pResult, pRequests>>
\* All of them, and what each of them never writes.
moreVars == <<backendVars, connectVars, selectVars, legacyVars, pipeVars>>
notBackendVars == <<gatewayVars, sideVars, connectVars, selectVars, legacyVars, pipeVars>>
notConnectVars == <<gatewayVars, sideVars, backendVars, selectVars, legacyVars, pipeVars>>
notSelectVars == <<gatewayVars, sideVars, backendVars, connectVars, legacyVars, pipeVars>>
notLegacyVars == <<gatewayVars, sideVars, backendVars, connectVars, selectVars, pipeVars>>
notPipeVars == <<gatewayVars, sideVars, backendVars, connectVars, selectVars, legacyVars>>
\* The components a listener callback or a monitor step never reaches.
besideBackendVars == <<connectVars, selectVars, legacyVars, pipeVars>>
\* What the client listener never writes.
notClientVars == <<gatewayVars, saturnVars, arbVars, lockVars, moreVars>>
\* What SaturnDiscovery never writes.
notSaturnVars == <<gatewayVars, clientVars, arbVars, lockVars, moreVars>>
\* What a backend's registration never writes.
notArbVars == <<gatewayVars, clientVars, saturnVars, lockVars, moreVars>>
\* What the threads' lock and network steps never write.
notLockVars == <<gatewayVars, clientVars, saturnVars, arbVars, moreVars>>
extVars == <<sideVars, moreVars>>
otherVars == <<lError, apiResult, genVars, extVars>>
vars == <<regVars, monVars, routeVars, lastLog, histVars, otherVars>>

(***************************************************************************)
(* Helpers                                                                 *)
(***************************************************************************)
Range(s) == {s[i] : i \in 1..Len(s)}

Contains(list, x) == \E i \in 1..Len(list) : list[i] = x

\* AIService(name, address, port, priority) with the dataclass defaults.
AIService(name, address, port, priority) ==
    [name |-> name, address |-> address, port |-> port, priority |-> priority,
     is_healthy |-> FALSE, available_models |-> <<>>,
     first_check_complete |-> FALSE]

\* The position of the key name in the dict, 0 when absent.
KeyIndex(svcs, h, name) ==
    IF \E i \in 1..Len(svcs) : h[svcs[i]].name = name
    THEN CHOOSE i \in 1..Len(svcs) : h[svcs[i]].name = name
    ELSE 0

\* discovery.services[name] = obj: an existing key keeps its position.
DictSet(svcs, h, name, oid) ==
    IF KeyIndex(svcs, h, name) = 0
    THEN Append(svcs, oid)
    ELSE [svcs EXCEPT ![KeyIndex(svcs, h, name)] = oid]

\* del discovery.services[name]
DictDel(svcs, h, name) ==
    SelectSeq(svcs, LAMBDA o : h[o].name # name)

\* Mutation of GetAllServices: only the oldest entry of the dict is listed.
GetAllServices_Oldest == SubSeq(services, 1, IF services = <<>> THEN 0 ELSE 1)

\* ServiceDiscovery.get_all_services: a new list of the same objects.
GetAllServices == services

\* Mutation of InsertByPriority: a service goes before those of its priority.
RECURSIVE InsertByPriority_BeforeEqual(_, _, _)
InsertByPriority_BeforeEqual(sorted, o, h) ==
    IF sorted = <<>> THEN <<o>>
    ELSE IF h[sorted[Len(sorted)]].priority < h[o].priority
         THEN Append(sorted, o)
         ELSE Append(InsertByPriority_BeforeEqual(
                         SubSeq(sorted, 1, Len(sorted) - 1), o, h),
                     sorted[Len(sorted)])

\* list.sort(key=lambda s: s.priority): stable, ascending.
RECURSIVE InsertByPriority(_, _, _)
InsertByPriority(sorted, o, h) ==
    IF sorted = <<>> THEN <<o>>
    ELSE IF h[sorted[Len(sorted)]].priority <= h[o].priority
         THEN Append(sorted, o)
         ELSE Append(InsertByPriority(SubSeq(sorted, 1, Len(sorted) - 1), o, h),
                     sorted[Len(sorted)])

RECURSIVE SortFrom(_, _, _, _)
SortFrom(list, i, acc, h) ==
    IF i > Len(list) THEN acc
    ELSE SortFrom(list, i + 1, InsertByPriority(acc, list[i], h), h)

\* Mutation of SortByPriority: the list keeps its discovery order.
SortByPriority_Unsorted(list, h) == list

SortByPriority(list, h) == SortFrom(list, 1, <<>>, h)

\* Mutation of FilterHealthy: is_healthy is not read.
FilterHealthy_All(list, h) == list

\* [s for s in services if s.is_healthy]
FilterHealthy(list, h) == SelectSeq(list, LAMBDA o : h[o].is_healthy)

\* Mutation of FilterModel: available_models is not read.
FilterModel_All(list, h, model) == list

\* [s for s in healthy_services if model_id in s.available_models]
FilterModel(list, h, model) ==
    SelectSeq(list, LAMBDA o : Contains(h[o].available_models, model))

\* Mutation of Slice: candidates[:1].
Slice_One(list, n) == SubSeq(list, 1, IF 1 < Len(list) THEN 1 ELSE Len(list))

\* candidates[:max_retries] for max_retries >= 0
Slice(list, n) == SubSeq(list, 1, IF n < Len(list) THEN n ELSE Len(list))

\* The registered records that are healthy and list the model.
Eligible(svcs, h, model) ==
    {o \in Range(svcs) : h[o].is_healthy /\ Contains(h[o].available_models, model)}

\* The objects whose health and models some thread can still read or write: the
\* dict's values, the part of the monitor's list its for loop has yet to
\* visit, and the router's lists before they are filtered.
Reachable(svcs, pc, msvcs, midx, rsvcs, rhealthy) ==
    Range(svcs)
    \cup (IF pc = "sleep" THEN {} ELSE {msvcs[i] : i \in midx..Len(msvcs)})
    \cup Range(rsvcs) \cup Range(rhealthy)

\* The objects of which only name, url and priority are still read: the
\* candidates of the call in progress.
Named(rcands) == Range(rcands)

\* An object only its immutable fields are read of.
Retired(svc) ==
    [svc EXCEPT !.is_healthy = FALSE, !.available_models = <<>>,
                !.first_check_complete = FALSE]

\* CPython frees an object when its last reference goes.  The slot of an object
\* nothing can reach is cleared; the dead fields of a candidate no longer
\* registered are reset.
Collect(h, live, named) ==
    [o \in 1..Len(h) |->
        IF o \in live THEN h[o]
        ELSE IF o \in named /\ h[o] # Freed THEN Retired(h[o])
        ELSE Freed]

\* heap' is h with the unreachable objects of the next state collected.
StoreHeap(h, done) ==
    /\ heap' = Collect(h, Reachable(services', mpc', mServices', mIdx',
                                    rServices', rHealthy'),
                       Named(rCandidates'))
    /\ probed' = (probed \cup done) \cap Reachable(services', mpc', mServices', mIdx',
                                                 rServices', rHealthy')

(***************************************************************************)
(* Initial state: ProxyManager() constructed, nothing discovered yet       *)
(***************************************************************************)
\* The components beside the gateway's threads before their first call, all
\* but the one called skip, whose inputs a specification draws itself.
IdleBut(skip) ==
    /\ alive = {}
    /\ mQuiet = {}
    /\ kGateway = None
    /\ kEvent = FALSE
    /\ kZeroconf = FALSE
    /\ kBrowser = FALSE
    /\ kpc = "idle"
    /\ kResult = None
    /\ IF skip = "select" THEN TRUE
       ELSE /\ selWords = 0
            /\ selRequested = None
            /\ selResult = None
    /\ IF skip = "legacy" THEN TRUE
       ELSE /\ ledger = [row \in Rows |-> 0]
            /\ forwards = [t \in Timestamps |-> 0]
    /\ now = 0
    /\ uLock = 0
    /\ qpc = [r \in Requests |-> "idle"]
    /\ qApp = [r \in Requests |-> "A"]
    /\ qSeen = [r \in Requests |-> 0]
    /\ qResult = [r \in Requests |-> 0]
    /\ qForwarded = [r \in Requests |-> FALSE]
    /\ IF skip = "pipe" THEN TRUE ELSE pDiscovered = {}
    /\ pCached = {}
    /\ pMap = [mid \in ModelIds |-> <<>>]
    /\ ppc = "idle"
    /\ pPrimary = ""
    /\ pModel = ""
    /\ pFailover = TRUE
    /\ pFallbacks = <<>>
    /\ pIdx = 1
    /\ pLastError = None
    /\ pResult = None
    /\ pRequests = <<>>

\* The gateway and the components around it before their first call.
IdleGateway ==
    /\ mpc = "sleep"
    /\ mServices = <<>>
    /\ mIdx = 1
    /\ mWas = FALSE
    /\ rpc = "idle"
    /\ rModel = "m1"
    /\ rStream = FALSE
    /\ rMaxRetries = DefaultMaxRetries
    /\ rServices = <<>>
    /\ rHealthy = <<>>
    /\ rCandidates = <<>>
    /\ rIdx = 1
    /\ rLastError = None
    /\ rResult = None
    /\ lastLog = None
    /\ posts = <<>>
    /\ mBefore = None
    /\ rStart = <<>>
    /\ lError = None
    /\ apiResult = None
    /\ gpc = "idle"
    /\ gBackend = <<>>
    /\ gChunk = None
    /\ gOut = <<>>
    /\ gDisconnected = FALSE
    /\ gError = None
    /\ gSent = <<>>
    /\ gReadAfter = 0
    /\ gLate = 0
    /\ cServices = <<>>
    /\ cFired = <<>>
    /\ cEvent = FALSE
    /\ sListener = FALSE
    /\ sStarted = FALSE
    /\ sServices = <<>>
    /\ sFound = FALSE
    /\ wpc = "idle"
    /\ wResult = None
    /\ wSignal = None
    /\ bpc = [b \in Backends |-> "down"]
    /\ bDesired = [b \in Backends |-> 0]
    /\ bObserved = [b \in Backends |-> {}]
    /\ bActual = [b \in Backends |-> 0]
    /\ lockHolder = [l \in Locks |-> "free"]
    /\ tpc = [t \in Threads |-> "idle"]
    /\ tLeft = [t \in Threads |-> 0]
    /\ tCount = 0

\* Everything but the advertisements of other services on the network.
InitIdle ==
    /\ IdleGateway
    /\ IdleBut("")

\* The state after construction, with no other service on the network.
InitThreads ==
    /\ InitIdle
    /\ foreign = {}

Init ==
    /\ heap = <<>>
    /\ services = <<>>
    /\ probed = {}
    /\ InitThreads

(***************************************************************************)
(* Discovery listener (zeroconf thread)                                    *)
(***************************************************************************)
\* Listener.add_service: resolve, then store a fresh AIService under the lock.
\* socket.inet_ntoa(info.addresses[0]) raises IndexError on an advertisement
\* that carries a port and no IPv4 address.
AddServiceBody(name, info) ==
    IF info.resolved /\ info.port # 0
    THEN IF info.addresses = <<>>
         THEN /\ lError' = [exception |-> "IndexError"]
              /\ UNCHANGED <<regVars, monVars, routeVars, probed>>
         ELSE /\ Len(heap) < MaxObjects
              /\ services' = DictSet(services, heap, name, Len(heap) + 1)
              /\ lError' = None
              /\ UNCHANGED <<monVars, routeVars>>
              /\ StoreHeap(Append(heap,
                     AIService(name, info.addresses[1], info.port,
                               IF info.priority # 0 THEN info.priority
                               ELSE DefaultPriority)), {})
    ELSE /\ lError' = None
         /\ UNCHANGED <<regVars, monVars, routeVars, probed>>

AddService(name, info) ==
    /\ AddServiceBody(name, info)
    /\ UNCHANGED <<lastLog, posts, mBefore, rStart, apiResult, genVars, extVars>>

\* Listener.update_service calls add_service.
UpdateService(name, info) ==
    /\ AddServiceBody(name, info)
    /\ UNCHANGED <<lastLog, posts, mBefore, rStart, apiResult, genVars, extVars>>

\* Listener.remove_service
RemoveServiceBody(name) ==
    /\ services' = IF KeyIndex(services, heap, name) # 0
                   THEN DictDel(services, heap, name)
                   ELSE services
    /\ lError' = None
    /\ UNCHANGED <<monVars, routeVars, lastLog, posts, mBefore, rStart, apiResult,
                   genVars>>
    /\ StoreHeap(heap, {})

RemoveService(name) ==
    /\ RemoveServiceBody(name)
    /\ UNCHANGED extVars

(***************************************************************************)
(* HealthMonitor._monitor_loop (its own thread).  last_seen, which nothing *)
(* reads, is left out.                                                     *)
(***************************************************************************)
\* Mutation of CheckHealth: any response counts as alive.
CheckHealth_AnyResponse(res) == res.kind = "response"

\* HealthMonitor._check_health on the outcome of GET /v1/health.
CheckHealth(res) == res.kind = "response" /\ res.status = 200

\* HealthMonitor._fetch_models on the outcome of GET /v1/models.
\* HealthMonitor._fetch_models on the outcome of GET /v1/models.  Every
\* exception of the request, of response.json() and of the comprehension is
\* caught and the empty list returned.
FetchModels(res) ==
    IF res.kind = "response" /\ res.status = 200 /\ res.body = "models"
    THEN res.ids
    ELSE <<>>

\* Mutation of ReportsTransition: first_check_complete is not read.
ReportsTransition_NoFirstCheck(svc, was_healthy) == svc.is_healthy # was_healthy

\* if service.first_check_complete and service.is_healthy != was_healthy
ReportsTransition(svc, was_healthy) ==
    svc.first_check_complete /\ svc.is_healthy # was_healthy

\* The log line of lines 113-115 for svc, None when the condition fails.
TransitionLog(svc, was_healthy, before) ==
    IF ReportsTransition(svc, was_healthy)
    THEN [service |-> svc.name,
          status |-> IF svc.is_healthy THEN "healthy" ELSE "unhealthy",
          before |-> before]
    ELSE None

\* Mutation of RegistryAfterProbe: the probed record is stored back under
\* its name.
RegistryAfterProbe_Upsert(svcs, h, o) == DictSet(svcs, h, h[o].name, o)

\* Mutation of RegistryAfterProbe: a record found unhealthy is taken out of
\* the dict.
RegistryAfterProbe_DropUnhealthy(svcs, h, o) ==
    IF ~h[o].is_healthy /\ Contains(svcs, o) THEN DictDel(svcs, h, h[o].name) ELSE svcs

\* The dict after a probe of object o: the monitor assigns the attributes of
\* the object it holds and never writes the dict.
RegistryAfterProbe(svcs, h, o) == svcs

\* Mutation of FinishProbe: a failed probe ends the monitor thread.
FinishProbe_DiesOnFailure(h, o, was_healthy, before) ==
    /\ lastLog' = TransitionLog(h[o], was_healthy, before)
    /\ mIdx' = IF mIdx + 1 > Len(mServices) THEN 1 ELSE mIdx + 1
    /\ mpc' = IF ~h[o].is_healthy THEN "dead"
              ELSE IF mIdx + 1 > Len(mServices) THEN "sleep" ELSE "check"
    /\ mServices' = IF mIdx + 1 > Len(mServices) THEN <<>> ELSE mServices
    /\ mWas' = FALSE
    /\ mBefore' = None
    /\ services' = RegistryAfterProbe(services, h, o)
    /\ UNCHANGED <<routeVars, posts, rStart, otherVars>>
    /\ StoreHeap([h EXCEPT ![o].first_check_complete = TRUE], {o})

\* Lines 113-117 for object o of heap h, and the step of the for loop: the
\* transition log, first_check_complete = True, the next service or the sleep.
FinishProbe(h, o, was_healthy, before) ==
    /\ lastLog' = TransitionLog(h[o], was_healthy, before)
    /\ mIdx' = IF mIdx + 1 > Len(mServices) THEN 1 ELSE mIdx + 1
    /\ mpc' = IF mIdx + 1 > Len(mServices) THEN "sleep" ELSE "check"
    /\ mServices' = IF mIdx + 1 > Len(mServices) THEN <<>> ELSE mServices
    /\ mWas' = FALSE
    /\ mBefore' = None
    /\ services' = RegistryAfterProbe(services, h, o)
    /\ UNCHANGED <<routeVars, posts, rStart, otherVars>>
    /\ StoreHeap([h EXCEPT ![o].first_check_complete = TRUE], {o})

\* services = self.discovery.get_all_services(), after the sleep
MonSnapshotBody ==
    /\ mpc = "sleep"
    /\ mServices' = GetAllServices
    /\ mIdx' = 1
    /\ mpc' = IF GetAllServices = <<>> THEN "sleep" ELSE "check"
    /\ lastLog' = None
    /\ UNCHANGED <<regVars, mWas, routeVars, histVars, lError, apiResult, genVars>>

MonSnapshot ==
    /\ MonSnapshotBody
    /\ UNCHANGED extVars

\* was_healthy = service.is_healthy; service.is_healthy = self._check_health(url);
\* when the service is not healthy the iteration ends here.
MonCheckHealth(res) ==
    /\ mpc = "check"
    /\ LET o == mServices[mIdx]
           h == [heap EXCEPT ![o].is_healthy = CheckHealth(res)]
           before == [first_check_complete |-> heap[o].first_check_complete,
                      is_healthy |-> heap[o].is_healthy,
                      probed |-> o \in probed]
       IN  IF h[o].is_healthy
           THEN /\ mWas' = heap[o].is_healthy
                /\ mBefore' = before
                /\ mpc' = "fetch"
                /\ lastLog' = None
                /\ UNCHANGED <<services, mServices, mIdx, routeVars, posts, rStart,
                               otherVars>>
                /\ StoreHeap(h, {})
           ELSE FinishProbe(h, o, heap[o].is_healthy, before)

\* service.available_models = self._fetch_models(url), and the end of the
\* iteration.
MonFetchModels(res) ==
    /\ mpc = "fetch"
    /\ LET o == mServices[mIdx]
           h == [heap EXCEPT ![o].available_models = FetchModels(res)]
       IN  FinishProbe(h, o, mWas, mBefore)

(***************************************************************************)
(* ModelRouter.route_request (request handler)                             *)
(***************************************************************************)
\* Mutation of AttemptOutcome: the body is parsed for a streaming call too.
AttemptOutcome_ParseStream(res, is_streaming) ==
    IF res.kind = "timeout" THEN "timed out"
    ELSE IF res.kind # "response" THEN "failed"
    ELSE IF res.status # 200 THEN "invalid format: status"
    ELSE IF res.body = "not_json" THEN "invalid format: invalid JSON"
    ELSE IF res.body = "no_choices" THEN "invalid format: missing choices"
    ELSE "ok"

\* What one pass through the try block of the for loop yields for the outcome
\* of requests.post: "ok" when the response is returned, else the error kept
\* in last_error.
AttemptOutcome(res, is_streaming) ==
    IF res.kind = "timeout" THEN "timed out"
    ELSE IF res.kind # "response" THEN "failed"
    ELSE IF res.status # 200 THEN "invalid format: status"
    ELSE IF is_streaming THEN "ok"
    ELSE IF res.body = "not_json" THEN "invalid format: invalid JSON"
    ELSE IF res.body = "no_choices" THEN "invalid format: missing choices"
    ELSE "ok"

\* candidates, filtered from healthy_services and sorted.
SelectCandidates(healthy, h, model) ==
    SortByPriority(FilterModel(healthy, h, model), h)

\* Mutation of LoopOver: max_retries is not read.
LoopOver_All(candidates, max_retries) == candidates

\* The services the for loop iterates over.
LoopOver(candidates, max_retries) == Slice(candidates, max_retries)

\* Mutation of AllFailed: the 502 does not carry last_error.
AllFailed_NoDetail(last_error) == [status |-> 502, detail |-> None]

\* The result of route_request when no candidate is left to try.
AllFailed(last_error) == [status |-> 502, detail |-> last_error]

\* The result of route_request when no service qualifies.
NotFound == [status |-> 404]

\* The responses route_request was given with stream=True, treated as failed
\* and still bound to its variable `response`: requests.post(..., stream=True)
\* leaves the connection open until the body is read or close() is called,
\* and route_request calls neither.  ps is the calls made so far; a later
\* response rebinds the variable, an exception of requests.post does not.
UnclosedResponses(ps, is_streaming) ==
    {i \in 1..Len(ps) :
        /\ is_streaming
        /\ ps[i].res.kind = "response"
        /\ ps[i].res.status # 200
        /\ \A j \in (i + 1)..Len(ps) : ps[j].res.kind # "response"}

\* services = self.discovery.get_all_services()
RouteStart(model, stream, max_retries) ==
    /\ rpc = "idle"
    /\ rModel' = model
    /\ rStream' = stream
    /\ rMaxRetries' = max_retries
    /\ rServices' = GetAllServices
    /\ rpc' = "filter_healthy"
    /\ rStart' = SortByPriority(
                    FilterModel(FilterHealthy(GetAllServices, heap), heap, model),
                    heap)
    /\ UNCHANGED <<regVars, monVars, rHealthy, rCandidates, rIdx, rLastError,
                   rResult, lastLog, posts, mBefore, probed>>
    /\ UNCHANGED otherVars

\* healthy_services = [s for s in services if s.is_healthy]
RouteFilterHealthy ==
    /\ rpc = "filter_healthy"
    /\ rHealthy' = FilterHealthy(rServices, heap)
    /\ rServices' = <<>>
    /\ rpc' = "filter_models"
    /\ UNCHANGED <<services, monVars, rModel, rStream, rMaxRetries, rCandidates,
                   rIdx, rLastError, rResult, lastLog, posts, mBefore,
                   rStart>>
    /\ UNCHANGED otherVars
    /\ StoreHeap(heap, {})

\* candidates = [...]; 404 when empty; candidates.sort(key=priority)
RouteFilterModels ==
    /\ rpc = "filter_models"
    /\ LET cands == SelectCandidates(rHealthy, heap, rModel) IN
        IF cands = <<>>
        THEN /\ rResult' = NotFound
             /\ rpc' = "done"
             /\ UNCHANGED rCandidates
        ELSE /\ rCandidates' = cands
             /\ rpc' = "attempt"
             /\ UNCHANGED rResult
    /\ rIdx' = 1
    /\ rHealthy' = <<>>
    /\ UNCHANGED <<services, monVars, rModel, rStream, rMaxRetries, rServices,
                   rLastError, lastLog, posts, mBefore, rStart>>
    /\ UNCHANGED otherVars
    /\ StoreHeap(heap, {})

\* One iteration of: for service in candidates[:max_retries]
RouteAttempt(res) ==
    /\ rpc = "attempt"
    /\ rIdx <= Len(LoopOver(rCandidates, rMaxRetries))
    /\ LET service == LoopOver(rCandidates, rMaxRetries)[rIdx]
           outcome == AttemptOutcome(res, rStream) IN
        /\ posts' = Append(posts, [to |-> service, res |-> res])
        /\ IF outcome = "ok"
           THEN /\ rResult' = [status |-> 200, from |-> service]
                /\ rpc' = "done"
                /\ UNCHANGED <<rLastError, rIdx>>
           ELSE /\ rLastError' = [service |-> heap[service].name, error |-> outcome]
                /\ rIdx' = rIdx + 1
                /\ UNCHANGED <<rResult, rpc>>
    /\ UNCHANGED <<regVars, monVars, rModel, rStream, rMaxRetries, rServices,
                   rHealthy, rCandidates, lastLog, mBefore, probed, rStart>>
    /\ UNCHANGED otherVars

\* The for loop ran out: raise HTTPException(502, "... Last error: {last_error}")
RouteAllFailed ==
    /\ rpc = "attempt"
    /\ rIdx > Len(LoopOver(rCandidates, rMaxRetries))
    /\ rResult' = AllFailed(rLastError)
    /\ rpc' = "done"
    /\ UNCHANGED <<regVars, monVars, rModel, rStream, rMaxRetries, rServices,
                   rHealthy, rCandidates, rIdx, rLastError, lastLog, histVars>>
    /\ UNCHANGED otherVars

\* The call has returned or raised; the handler is ready for the next request.
RouteReturn ==
    /\ rpc = "done"
    /\ rpc' = "idle"
    /\ rModel' = "m1"
    /\ rStream' = FALSE
    /\ rMaxRetries' = DefaultMaxRetries
    /\ rCandidates' = <<>>
    /\ rIdx' = 1
    /\ rLastError' = None
    /\ rResult' = None
    /\ posts' = <<>>
    /\ rStart' = <<>>
    /\ UNCHANGED <<services, monVars, rServices, rHealthy, lastLog, mBefore>>
    /\ UNCHANGED otherVars
    /\ StoreHeap(heap, {})

(***************************************************************************)
(* GET /v1/health and GET /v1/models                                       *)
(***************************************************************************)
\* The (service name, model id) pairs the two for loops of get_all_models
\* visit, in order.
RECURSIVE ModelPairs(_, _)
ModelPairs(healthy, h) ==
    IF healthy = <<>> THEN <<>>
    ELSE [i \in 1..Len(h[Head(healthy)].available_models) |->
             [service |-> h[Head(healthy)].name,
              model_id |-> h[Head(healthy)].available_models[i]]]
         \o ModelPairs(Tail(healthy), h)

\* Mutation of AllModels: every pair is appended, seen before or not.
AllModels_NoDedup(pairs, i, all_models) ==
    [k \in 1..Len(pairs) |->
        [id |-> pairs[k].model_id, object |-> "model",
         owned_by |-> pairs[k].service]]

\* all_models after the pairs from i on: an id not yet in model_to_services
\* is appended with owned_by = the service of its first pair.
RECURSIVE AllModels(_, _, _)
AllModels(pairs, i, all_models) ==
    IF i > Len(pairs) THEN all_models
    ELSE AllModels(pairs, i + 1,
            IF \E k \in 1..Len(all_models) : all_models[k].id = pairs[i].model_id
            THEN all_models
            ELSE Append(all_models,
                        [id |-> pairs[i].model_id, object |-> "model",
                         owned_by |-> pairs[i].service]))

\* ModelRouter.get_all_models
GetAllModels(svcs, h) ==
    [models |-> AllModels(ModelPairs(FilterHealthy(svcs, h), h), 1, <<>>)]

\* The body of GET /v1/health.
HealthBody(svcs, h) ==
    [status |-> IF FilterHealthy(svcs, h) # <<>> THEN "ok" ELSE "no_services",
     provider |-> "ZeroconfAI local proxy",
     services |-> Len(FilterHealthy(svcs, h)),
     total_services |-> Len(svcs)]

\* GET /v1/health
GetHealth ==
    /\ apiResult' = [endpoint |-> "health", status |-> 200,
                     body |-> HealthBody(GetAllServices, heap)]
    /\ UNCHANGED <<regVars, monVars, routeVars, lastLog, histVars, lError, genVars, extVars>>

\* Mutation of ModelsResponse: the list is returned, empty or not.
ModelsResponse_NoCheck(models) ==
    [endpoint |-> "models", status |-> 200, body |-> models]

\* get_models on the result of get_all_models: HTTPException(503) when the
\* list is empty.
ModelsResponse(models) ==
    IF models.models = <<>>
    THEN [endpoint |-> "models", status |-> 503,
          detail |-> "No models available from any ZeroconfAI service"]
    ELSE [endpoint |-> "models", status |-> 200, body |-> models]

\* GET /v1/models
GetModels ==
    /\ apiResult' = ModelsResponse(GetAllModels(GetAllServices, heap))
    /\ UNCHANGED <<regVars, monVars, routeVars, lastLog, histVars, lError, genVars, extVars>>

(***************************************************************************)
(* chat_completions.generate: the streaming passthrough.  chunk_count,     *)
(* which is only logged, is left out.                                      *)
(***************************************************************************)
\* chunk.decode('utf-8') succeeds.
Decodable(chunk) == chunk # "bad"

\* Mutation of ChunkStep: the terminator ends the loop without being yielded.
ChunkStep_StopAtDone(chunk, disconnected) ==
    IF disconnected \/ chunk = "[DONE]" THEN "break"
    ELSE IF chunk = "" THEN "skip"
    ELSE IF ~Decodable(chunk) THEN "raise"
    ELSE "yield"

\* Mutation of ChunkStep: raw_request.is_disconnected() is not asked.
ChunkStep_NoDisconnectCheck(chunk, disconnected) ==
    IF chunk = "" THEN "skip"
    ELSE IF ~Decodable(chunk) THEN "raise"
    ELSE "yield"

\* The body of the for loop for one chunk: break on a disconnected caller,
\* skip an empty chunk, raise when the chunk does not decode, else yield.
ChunkStep(chunk, disconnected) ==
    IF disconnected THEN "break"
    ELSE IF chunk = "" THEN "skip"
    ELSE IF ~Decodable(chunk) THEN "raise"
    ELSE "yield"

\* Mutation of OnStreamError: the next candidate is tried.
OnStreamError_Retry(pc, idx) == [rpc |-> "attempt", rIdx |-> idx + 1]

\* except Exception: log and raise.  route_request has returned and is not
\* entered again.
OnStreamError(pc, idx) == [rpc |-> pc, rIdx |-> idx]

\* StreamingResponse(generate()) starts iterating the generator over the
\* response route_request returned.
GenStart(stream) ==
    /\ rpc = "done"
    /\ rStream
    /\ rResult.status = 200
    /\ gpc = "idle"
    /\ gpc' = "read"
    /\ gBackend' = stream
    /\ gSent' = stream
    /\ UNCHANGED <<regVars, monVars, routeVars, lastLog, histVars, lError,
                   apiResult, extVars, gChunk, gOut, gDisconnected, gError, gReadAfter,
                   gLate>>

\* for chunk in response.iter_content(chunk_size=None); when the response is
\* exhausted the loop ends and finally closes the response.
GenRead ==
    /\ gpc = "read"
    /\ IF gBackend = <<>>
       THEN /\ gpc' = "closed"
            /\ UNCHANGED <<gBackend, gChunk, gReadAfter>>
       ELSE /\ gChunk' = Head(gBackend)
            /\ gBackend' = Tail(gBackend)
            /\ gReadAfter' = gReadAfter + (IF gDisconnected THEN 1 ELSE 0)
            /\ gpc' = "check"
    /\ UNCHANGED <<regVars, monVars, routeVars, lastLog, histVars, lError,
                   apiResult, extVars, gOut, gDisconnected, gError, gSent, gLate>>

\* if await raw_request.is_disconnected(): break; if chunk: decode.  break and
\* an exception both reach finally: response.close().
GenCheck ==
    /\ gpc = "check"
    /\ LET step == ChunkStep(gChunk, gDisconnected) IN
        /\ gpc' = CASE step = "yield" -> "yield"
                    [] step = "skip" -> "read"
                    [] OTHER -> "closed"
        /\ gChunk' = IF step = "yield" THEN gChunk ELSE None
        /\ gError' = IF step = "raise"
                     THEN [exception |-> "UnicodeDecodeError"]
                     ELSE gError
        /\ rpc' = IF step = "raise" THEN OnStreamError(rpc, rIdx).rpc ELSE rpc
        /\ rIdx' = IF step = "raise" THEN OnStreamError(rpc, rIdx).rIdx ELSE rIdx
    /\ UNCHANGED <<regVars, monVars, rModel, rStream, rMaxRetries, rServices,
                   rHealthy, rCandidates, rLastError, rResult, lastLog, histVars,
                   lError, apiResult, extVars, gBackend, gOut, gDisconnected, gSent,
                   gReadAfter, gLate>>

\* yield chunk
GenYield ==
    /\ gpc = "yield"
    /\ gOut' = Append(gOut, gChunk)
    /\ gLate' = gLate + (IF gReadAfter > 0 THEN 1 ELSE 0)
    /\ gChunk' = None
    /\ gpc' = "read"
    /\ UNCHANGED <<regVars, monVars, routeVars, lastLog, histVars, lError,
                   apiResult, extVars, gBackend, gDisconnected, gError, gSent, gReadAfter>>

\* The caller disconnects while the stream is in progress.
Disconnect ==
    /\ gpc \in {"read", "check", "yield"}
    /\ ~gDisconnected
    /\ gDisconnected' = TRUE
    /\ UNCHANGED <<regVars, monVars, routeVars, lastLog, histVars, lError,
                   apiResult, extVars, gpc, gBackend, gChunk, gOut, gError, gSent,
                   gReadAfter, gLate>>

\* The streaming response is over; the handler is ready for the next request.
StreamReturn ==
    /\ gpc = "closed"
    /\ gpc' = "idle"
    /\ gBackend' = <<>>
    /\ gChunk' = None
    /\ gOut' = <<>>
    /\ gDisconnected' = FALSE
    /\ gError' = None
    /\ gSent' = <<>>
    /\ gReadAfter' = 0
    /\ gLate' = 0
    /\ rpc' = "idle"
    /\ rModel' = "m1"
    /\ rStream' = FALSE
    /\ rMaxRetries' = DefaultMaxRetries
    /\ rCandidates' = <<>>
    /\ rIdx' = 1
    /\ rLastError' = None
    /\ rResult' = None
    /\ posts' = <<>>
    /\ rStart' = <<>>
    /\ UNCHANGED <<services, monVars, rServices, rHealthy, lastLog, mBefore,
                   lError, apiResult, extVars>>
    /\ StoreHeap(heap, {})

(***************************************************************************)
(* src/client.py ServiceListener: the registry of a chat client, with one  *)
(* discovery callback and one removal callback subscribed.  The listener   *)
(* is the record [services, fired, event].                                 *)
(***************************************************************************)
ClientService(name, info) ==
    [name |-> name, host |-> info.addresses[1], port |-> info.port]

ClientHas(svcs, name) == \E i \in 1..Len(svcs) : svcs[i].name = name

\* self.services[name] = service: an existing key keeps its position.
ClientDictSet(svcs, service) ==
    IF ClientHas(svcs, service.name)
    THEN [i \in 1..Len(svcs) |->
            IF svcs[i].name = service.name THEN service ELSE svcs[i]]
    ELSE Append(svcs, service)

\* ServiceListener.add_service: an advertisement that does not resolve is
\* ignored; socket.inet_ntoa(info.addresses[0]) on one without an address
\* raises inside the try, which logs the error; else the service is stored,
\* the discovery callbacks run and the event is set.
ClientAdd(st, name, info) ==
    IF info.resolved /\ info.addresses # <<>>
    THEN [services |-> ClientDictSet(st.services, ClientService(name, info)),
          fired |-> Append(st.fired, [callback |-> "discovered", name |-> name]),
          event |-> TRUE]
    ELSE st

\* ServiceListener.remove_service
ClientRemove(st, name) ==
    IF ClientHas(st.services, name)
    THEN [services |-> SelectSeq(st.services, LAMBDA svc : svc.name # name),
          fired |-> Append(st.fired, [callback |-> "removed", name |-> name]),
          event |-> st.event]
    ELSE st

\* ServiceListener.update_service: remove_service, then add_service.
ClientUpdate(st, name, info) == ClientAdd(ClientRemove(st, name), name, info)

\* The listener as an event finds it.
ClientListener == [services |-> cServices, fired |-> <<>>, event |-> cEvent]

ClientAddService(name, info) ==
    LET st == ClientAdd(ClientListener, name, info) IN
    /\ cServices' = st.services
    /\ cFired' = st.fired
    /\ cEvent' = st.event
    /\ UNCHANGED notClientVars

ClientRemoveService(name) ==
    LET st == ClientRemove(ClientListener, name) IN
    /\ cServices' = st.services
    /\ cFired' = st.fired
    /\ cEvent' = st.event
    /\ UNCHANGED notClientVars

ClientUpdateService(name, info) ==
    LET st == ClientUpdate(ClientListener, name, info) IN
    /\ cServices' = st.services
    /\ cFired' = st.fired
    /\ cEvent' = st.event
    /\ UNCHANGED notClientVars

(***************************************************************************)
(* src/owui_saturn.py: SaturnServiceListener, SaturnDiscovery and          *)
(* wait_for_services.  The listener is the record [services, found].       *)
(***************************************************************************)
\* int(priority_bytes.decode("utf-8")) succeeds.
IsInt(txt) == txt = "7"

IntOf(txt) == 7

\* The priority of the record: the TXT property when it is a number, else the
\* advertised priority, else the default.
SaturnPriority(info) ==
    IF info.txt_priority # "" /\ IsInt(info.txt_priority)
    THEN IntOf(info.txt_priority)
    ELSE IF info.priority # 0 THEN info.priority ELSE DefaultPriority

SaturnService(name, info) ==
    [name |-> name, address |-> info.addresses[1], port |-> info.port,
     priority |-> SaturnPriority(info)]

SaturnHas(svcs, name) == \E i \in 1..Len(svcs) : svcs[i].name = name

\* self.services[clean_name] = SaturnService(...)
SaturnDictSet(svcs, service) ==
    IF SaturnHas(svcs, service.name)
    THEN [i \in 1..Len(svcs) |->
            IF svcs[i].name = service.name THEN service ELSE svcs[i]]
    ELSE Append(svcs, service)

\* Mutation of SaturnAdd: the event is set whatever the advertisement.
SaturnAdd_AlwaysFound(st, name, info) ==
    IF info.resolved /\ info.addresses # <<>>
    THEN [services |-> SaturnDictSet(st.services, SaturnService(name, info)),
          found |-> TRUE]
    ELSE [st EXCEPT !.found = TRUE]

\* SaturnServiceListener.add_service: return when the advertisement does not
\* resolve or has no address; else store the record and set service_found.
SaturnAdd(st, name, info) ==
    IF info.resolved /\ info.addresses # <<>>
    THEN [services |-> SaturnDictSet(st.services, SaturnService(name, info)),
          found |-> TRUE]
    ELSE st

\* SaturnServiceListener.remove_service
SaturnRemove(st, name) ==
    [st EXCEPT !.services = SelectSeq(st.services, LAMBDA svc : svc.name # name)]

SaturnListener == [services |-> sServices, found |-> sFound]

\* Mutation of WaitOutcome: a set event is reported as a timeout.
WaitOutcome_Inverted(listener, found) ==
    IF ~listener THEN "false"
    ELSE IF found THEN "false"
    ELSE "wait"

\* wait_for_services up to the wait: False without a listener; Event.wait
\* returns True at once when the event is set.
WaitOutcome(listener, found) ==
    IF ~listener THEN "false"
    ELSE IF found THEN "true"
    ELSE "wait"

\* SaturnDiscovery.start, with no wait_for_services in progress (the Pipe
\* calls start and wait_for_services one after the other).
SaturnStart ==
    /\ ~sStarted
    /\ wpc # "waiting"
    /\ sListener' = TRUE
    /\ sStarted' = TRUE
    /\ sServices' = <<>>
    /\ sFound' = FALSE
    /\ UNCHANGED <<wpc, wResult, wSignal, notSaturnVars>>

\* SaturnDiscovery.stop: the browser is cancelled.
SaturnStop ==
    /\ sStarted
    /\ sStarted' = FALSE
    /\ UNCHANGED <<sListener, sServices, sFound, wpc, wResult, wSignal,
                   notSaturnVars>>

SaturnAddService(name, info) ==
    /\ sStarted
    /\ LET st == SaturnAdd(SaturnListener, name, info) IN
        /\ sServices' = st.services
        /\ sFound' = st.found
    /\ UNCHANGED <<sListener, sStarted, wpc, wResult, wSignal, notSaturnVars>>

\* SaturnServiceListener.update_service calls add_service.
SaturnUpdateService(name, info) ==
    /\ sStarted
    /\ LET st == SaturnAdd(SaturnListener, name, info) IN
        /\ sServices' = st.services
        /\ sFound' = st.found
    /\ UNCHANGED <<sListener, sStarted, wpc, wResult, wSignal, notSaturnVars>>

SaturnRemoveService(name) ==
    /\ sStarted
    /\ LET st == SaturnRemove(SaturnListener, name) IN
        /\ sServices' = st.services
        /\ sFound' = st.found
    /\ UNCHANGED <<sListener, sStarted, wpc, wResult, wSignal, notSaturnVars>>

\* wait_for_services is called.
WaitStart ==
    /\ wpc = "idle"
    /\ LET outcome == WaitOutcome(sListener, sFound) IN
        /\ wpc' = IF outcome = "wait" THEN "waiting" ELSE "returned"
        /\ wResult' = IF outcome = "wait" THEN None ELSE (outcome = "true")
        /\ wSignal' = IF outcome = "wait" THEN None ELSE (sListener /\ sFound)
    /\ UNCHANGED <<sListener, sStarted, sServices, sFound, notSaturnVars>>

\* service_found.set() wakes the waiter: Event.wait returns True.
WaitWake ==
    /\ wpc = "waiting"
    /\ sFound
    /\ wpc' = "returned"
    /\ wResult' = TRUE
    /\ wSignal' = sFound
    /\ UNCHANGED <<sListener, sStarted, sServices, sFound, notSaturnVars>>

\* The timeout elapses with the event not set: Event.wait returns False.
WaitTimeout ==
    /\ wpc = "waiting"
    /\ ~sFound
    /\ wpc' = "returned"
    /\ wResult' = FALSE
    /\ wSignal' = sFound
    /\ UNCHANGED <<sListener, sStarted, sServices, sFound, notSaturnVars>>

\* The caller has the result; a later call may follow.
WaitReturn ==
    /\ wpc = "returned"
    /\ wpc' = "idle"
    /\ wResult' = None
    /\ wSignal' = None
    /\ UNCHANGED <<sListener, sStarted, sServices, sFound, notSaturnVars>>

(***************************************************************************)
(* Backend registration: PriorityDiscoveryListener, find_available_priority*)
(* and register_zeroconfai (src/fallback_server.py, src/gemini_server.py). *)
(***************************************************************************)
\* properties={'priority': str(actual_priority)} and priority=actual_priority
Advertisement(priority) ==
    [priority |-> priority, properties |-> [priority |-> [decimal |-> priority]]]

\* An advertisement of another service, with the TXT property.
ForeignAdvertisement(priority) == Advertisement(priority)

\* The advertisements a browser started now collects: those of the registered
\* backends and of the other services.
Advertised(pc, actual, others) ==
    {Advertisement(actual[b]) : b \in {x \in Backends : pc[x] = "registered"}}
    \cup {ForeignAdvertisement(p) : p \in others}

\* Mutation of ObservedPriorities: nothing is collected.
ObservedPriorities_Nothing(ads) == {}

\* PriorityDiscoveryListener.add_service over the advertisements seen:
\* int(priority_bytes.decode('utf-8')) of each priority property.
ObservedPriorities(ads) == {ad.properties.priority.decimal : ad \in ads}

\* Mutation of FindAvailablePriority: one step at most.
FindAvailablePriority_OneStep(current_priority, priorities) ==
    IF current_priority \in priorities
    THEN current_priority + 1
    ELSE current_priority

\* Mutation of FindAvailablePriority: the scan is not consulted.
FindAvailablePriority_Desired(current_priority, priorities) == current_priority

\* while current_priority in listener.priorities: current_priority += 1
RECURSIVE FindAvailablePriority(_, _)
FindAvailablePriority(current_priority, priorities) ==
    IF current_priority \in priorities
    THEN FindAvailablePriority(current_priority + 1, priorities)
    ELSE current_priority

\* find_available_priority(desired, service_type): browse for the settle
\* window, then pick.
ScanPriorities(b, desired) ==
    /\ bpc[b] = "down"
    /\ LET priorities == ObservedPriorities(Advertised(bpc, bActual, foreign)) IN
        /\ bObserved' = [bObserved EXCEPT ![b] = priorities]
        /\ bActual' = [bActual EXCEPT ![b] = FindAvailablePriority(desired, priorities)]
    /\ bDesired' = [bDesired EXCEPT ![b] = desired]
    /\ bpc' = [bpc EXCEPT ![b] = "scanned"]
    /\ UNCHANGED <<foreign, notArbVars>>

\* zeroconf.register_service(info)
RegisterService(b) ==
    /\ bpc[b] = "scanned"
    /\ bpc' = [bpc EXCEPT ![b] = "registered"]
    /\ UNCHANGED <<bDesired, bObserved, bActual, foreign, notArbVars>>

\* The backend shuts down: zeroconf.unregister_service(info)
UnregisterService(b) ==
    /\ bpc[b] = "registered"
    /\ bpc' = [bpc EXCEPT ![b] = "down"]
    /\ bDesired' = [bDesired EXCEPT ![b] = 0]
    /\ bObserved' = [bObserved EXCEPT ![b] = {}]
    /\ bActual' = [bActual EXCEPT ![b] = 0]
    /\ UNCHANGED <<foreign, notArbVars>>

(***************************************************************************)
(* POST /v1/chat/completions: the body is validated against UserAIRequest  *)
(* before chat_completions runs.                                           *)
(***************************************************************************)
\* CurrentChatContent: role is one of the three literals, content a string.
ValidMessage(msg) ==
    /\ msg.role.type = "string"
    /\ msg.role.value \in {"user", "assistant", "system"}
    /\ msg.content.type = "string"

\* Mutation of ValidRequest: the items of messages are not validated.
ValidRequest_AnyMessage(body) ==
    /\ body.model.type = "string"
    /\ body.messages.type = "array"
    /\ body.stream.type \in {"absent", "boolean"}

\* UserAIRequest: model is a string, messages a list of CurrentChatContent,
\* stream a boolean when given.
ValidRequest(body) ==
    /\ body.model.type = "string"
    /\ body.messages.type = "array"
    /\ \A i \in 1..Len(body.messages.items) : ValidMessage(body.messages.items[i])
    /\ body.stream.type \in {"absent", "boolean"}

\* stream: bool = False
StreamOf(body) == IF body.stream.type = "absent" THEN FALSE ELSE body.stream.value

\* A chat-completions request arrives: a body that does not validate is
\* answered 422 and the handler does not run; else the handler calls
\* route_request(request.model, request_dict).
ChatCompletions(body) ==
    /\ rpc = "idle"
    /\ IF ValidRequest(body)
       THEN RouteStart(body.model.value, StreamOf(body), DefaultMaxRetries)
       ELSE /\ apiResult' = [endpoint |-> "chat", status |-> 422]
            /\ UNCHANGED <<regVars, monVars, routeVars, lastLog, histVars, lError,
                           genVars, extVars>>

(***************************************************************************)
(* The threads by their lock and network operations: where each `with      *)
(* lock:` block begins and ends and where each network call is made.       *)
(* A thread is "idle" (the monitor: asleep), in a network call ("resolve", *)
(* "check", "fetch", "post"), waiting for a lock ("want_...") or inside    *)
(* the `with` block ("store", "delete", "copy").                           *)
(***************************************************************************)
LockOf(t) == IF t = "saturn" THEN "saturn" ELSE "discovery"

\* Mutation of Release: the lock is still held after the block.
Release_Held(holder) == holder

\* The end of a `with lock:` block.
Release(holder) == "free"

Min(a, b) == IF a < b THEN a ELSE b

\* A step of thread t from position from to position to that touches no lock.
Move(t, from, to) ==
    /\ tpc[t] = from
    /\ tpc' = [tpc EXCEPT ![t] = to]

\* add_service / update_service is called: info = zc.get_service_info(...)
ListenerEvent(t) ==
    /\ t \in {"listener", "saturn"}
    /\ Move(t, "idle", "resolve")
    /\ UNCHANGED <<lockHolder, tLeft, tCount, notLockVars>>

\* get_service_info returned; an advertisement that is not usable ends the
\* callback.
ListenerResolved(t, usable) ==
    /\ t \in {"listener", "saturn"}
    /\ Move(t, "resolve", IF usable THEN "want_store" ELSE "idle")
    /\ UNCHANGED <<lockHolder, tLeft, tCount, notLockVars>>

\* remove_service is called.
ListenerRemoveEvent(t) ==
    /\ t \in {"listener", "saturn"}
    /\ Move(t, "idle", "want_delete")
    /\ UNCHANGED <<lockHolder, tLeft, tCount, notLockVars>>

\* get_all_services is called: by the monitor after its sleep, by
\* route_request for a request.
WantSnapshot(t) ==
    /\ t \in {"monitor", "handler"}
    /\ Move(t, "idle", "want_copy")
    /\ UNCHANGED <<lockHolder, tLeft, tCount, notLockVars>>

\* with lock: the block is entered when the lock is free.
Acquire(t) ==
    /\ tpc[t] \in {"want_store", "want_delete", "want_copy"}
    /\ lockHolder[LockOf(t)] = "free"
    /\ lockHolder' = [lockHolder EXCEPT ![LockOf(t)] = t]
    /\ tpc' = [tpc EXCEPT ![t] = CASE tpc[t] = "want_store" -> "store"
                                   [] tpc[t] = "want_delete" -> "delete"
                                   [] OTHER -> "copy"]
    /\ UNCHANGED <<tLeft, tCount, notLockVars>>

\* services[name] = ...: a new name or a registered one; the block ends.
Store(t, new) ==
    /\ Move(t, "store", "idle")
    /\ lockHolder' = [lockHolder EXCEPT ![LockOf(t)] = Release(t)]
    /\ tCount' = IF t = "listener" /\ new THEN Min(tCount + 1, MaxServices)
                 ELSE tCount
    /\ UNCHANGED <<tLeft, notLockVars>>

\* if name in services: del services[name]; the block ends.
Delete(t, present) ==
    /\ Move(t, "delete", "idle")
    /\ lockHolder' = [lockHolder EXCEPT ![LockOf(t)] = Release(t)]
    /\ tCount' = IF t = "listener" /\ present /\ tCount > 0 THEN tCount - 1
                 ELSE tCount
    /\ UNCHANGED <<tLeft, notLockVars>>

\* return list(self.services.values()); the block ends.  The monitor goes on
\* to probe each service; route_request to post to k candidates, k at most
\* max_retries.
Copy(t, k) ==
    /\ tpc[t] = "copy"
    /\ k <= tCount
    /\ t = "monitor" => k = tCount
    /\ t = "handler" => k <= DefaultMaxRetries
    /\ lockHolder' = [lockHolder EXCEPT ![LockOf(t)] = Release(t)]
    /\ tLeft' = [tLeft EXCEPT ![t] = k]
    /\ tpc' = [tpc EXCEPT ![t] = IF k = 0 THEN "idle"
                                 ELSE IF t = "monitor" THEN "check" ELSE "post"]
    /\ UNCHANGED <<tCount, notLockVars>>

\* The next iteration of thread t's for loop, or its end.
LoopStep(t, again) ==
    /\ tLeft' = [tLeft EXCEPT ![t] = IF tLeft[t] > 1 THEN tLeft[t] - 1 ELSE 0]
    /\ tpc' = [tpc EXCEPT ![t] = IF tLeft[t] > 1 THEN again ELSE "idle"]

\* _check_health returned.
ProbeChecked(healthy) ==
    /\ tpc["monitor"] = "check"
    /\ IF healthy
       THEN /\ tpc' = [tpc EXCEPT !["monitor"] = "fetch"]
            /\ UNCHANGED tLeft
       ELSE LoopStep("monitor", "check")
    /\ UNCHANGED <<lockHolder, tCount, notLockVars>>

\* _fetch_models returned.
ProbeFetched ==
    /\ tpc["monitor"] = "fetch"
    /\ LoopStep("monitor", "check")
    /\ UNCHANGED <<lockHolder, tCount, notLockVars>>

\* requests.post returned: a success ends the loop.
Posted(ok) ==
    /\ tpc["handler"] = "post"
    /\ IF ok
       THEN /\ tpc' = [tpc EXCEPT !["handler"] = "idle"]
            /\ tLeft' = [tLeft EXCEPT !["handler"] = 0]
       ELSE LoopStep("handler", "post")
    /\ UNCHANGED <<lockHolder, tCount, notLockVars>>

(***************************************************************************)
(* The gateway's listener and monitor with backends whose liveness is      *)
(* state: a backend in alive answers GET /v1/health with 200, any other    *)
(* does not answer or answers another status.  mQuiet records, per cycle   *)
(* of the monitor, the names left alone since the snapshot.                *)
(***************************************************************************)
\* What the backend of the record under probe answers to GET /v1/health.
BackendAnswers(res, up) == (res.kind = "response" /\ res.status = 200) <=> up

\* The frame of a listener callback apart from mQuiet.
ListenerFrame == UNCHANGED <<lastLog, posts, mBefore, rStart, apiResult, genVars,
                             sideVars, besideBackendVars, alive>>

\* Listener.add_service / update_service / remove_service for name.
QuietAddService(name, info) ==
    /\ AddServiceBody(name, info)
    /\ ListenerFrame
    /\ mQuiet' = mQuiet \ {name}

QuietUpdateService(name, info) ==
    /\ AddServiceBody(name, info)
    /\ ListenerFrame
    /\ mQuiet' = mQuiet \ {name}

QuietRemoveService(name) ==
    /\ RemoveServiceBody(name)
    /\ UNCHANGED <<sideVars, besideBackendVars, alive>>
    /\ mQuiet' = mQuiet \ {name}

\* The backend called name starts or stops answering the liveness probe.
BackendChange(name) ==
    /\ alive' = IF name \in alive THEN alive \ {name} ELSE alive \cup {name}
    /\ mQuiet' = mQuiet \ {name}
    /\ UNCHANGED notBackendVars

\* get_all_services() at the start of a cycle.
QuietSnapshot ==
    /\ MonSnapshotBody
    /\ mQuiet' = {heap[o].name : o \in Range(GetAllServices)}
    /\ UNCHANGED <<sideVars, besideBackendVars, alive>>

\* _check_health against the backend as it is.
ProbeBackend(res) ==
    /\ mpc = "check"
    /\ BackendAnswers(res, heap[mServices[mIdx]].name \in alive)
    /\ MonCheckHealth(res)

(***************************************************************************)
(* src/src/client.py: GatewayDiscovery, the listener of the client         *)
(* library's ServiceBrowser, and ZeroConfAIClient.connect / disconnect.    *)
(* The callbacks run on the zeroconf thread, connect on the event loop.    *)
(***************************************************************************)
\* What get_service_info returns to the client library: nothing, or an
\* advertisement with its addresses, port and TXT properties: none, a
\* version string, or a key without a value (None in info.properties).
GatewayAdvertisements ==
    {NoInfo} \cup
    [resolved : {TRUE}, addresses : {<<>>, <<"10.0.0.1">>, <<"10.0.0.2">>},
     port : {8000, 8080}, properties : {"none", "version", "no_value"}]

AIGateway(name, info) ==
    [name |-> name, host |-> info.addresses[1], port |-> info.port,
     properties |-> info.properties]

\* GatewayDiscovery.add_service: the first gateway discovered is kept.  A
\* property without a value raises AttributeError in v.decode, and an
\* advertisement without an address raises IndexError in inet_ntoa, both
\* before anything is assigned.
GatewayAdd(st, name, info) ==
    IF /\ info.resolved
       /\ st.gateway = None
       /\ info.properties # "no_value"
       /\ info.addresses # <<>>
    THEN [gateway |-> AIGateway(name, info), event |-> TRUE]
    ELSE st

\* GatewayDiscovery.remove_service: the event stays set.
GatewayRemove(st, name) ==
    IF st.gateway # None /\ st.gateway.name = name
    THEN [gateway |-> None, event |-> st.event]
    ELSE st

\* GatewayDiscovery.update_service: pass
GatewayUpdate(st, name, info) == st

GatewayListener == [gateway |-> kGateway, event |-> kEvent]

\* ZeroConfAIClient.disconnect
DisconnectClient(zeroconf, browser) ==
    IF zeroconf THEN [zeroconf |-> FALSE, browser |-> FALSE]
    ELSE [zeroconf |-> zeroconf, browser |-> browser]

\* connect: self.zeroconf = Zeroconf(); self.browser = ServiceBrowser(...)
ConnectStart ==
    /\ kpc = "idle"
    /\ kZeroconf' = TRUE
    /\ kBrowser' = TRUE
    /\ kpc' = "waiting"
    /\ kResult' = None
    /\ UNCHANGED <<kGateway, kEvent, notConnectVars>>

\* The browser's callbacks, while the Zeroconf instance is open.
GatewayAddService(name, info) ==
    /\ kZeroconf
    /\ kGateway' = GatewayAdd(GatewayListener, name, info).gateway
    /\ kEvent' = GatewayAdd(GatewayListener, name, info).event
    /\ UNCHANGED <<kZeroconf, kBrowser, kpc, kResult, notConnectVars>>

GatewayRemoveService(name) ==
    /\ kZeroconf
    /\ kGateway' = GatewayRemove(GatewayListener, name).gateway
    /\ kEvent' = GatewayRemove(GatewayListener, name).event
    /\ UNCHANGED <<kZeroconf, kBrowser, kpc, kResult, notConnectVars>>

GatewayUpdateService(name, info) ==
    /\ kZeroconf
    /\ kGateway' = GatewayUpdate(GatewayListener, name, info).gateway
    /\ kEvent' = GatewayUpdate(GatewayListener, name, info).event
    /\ UNCHANGED <<kZeroconf, kBrowser, kpc, kResult, notConnectVars>>

\* wait_for_gateway returns True: the event is set.
ConnectFound ==
    /\ kpc = "waiting"
    /\ kEvent
    /\ kpc' = "done"
    /\ kResult' = TRUE
    /\ UNCHANGED <<kGateway, kEvent, kZeroconf, kBrowser, notConnectVars>>

\* wait_for_gateway times out and connect disconnects.  The event is an
\* asyncio.Event set from the zeroconf thread, which does not wake the
\* event loop reliably, so the wait can time out with the event set.
ConnectTimeout ==
    /\ kpc = "waiting"
    /\ kpc' = "done"
    /\ kResult' = FALSE
    /\ kZeroconf' = DisconnectClient(kZeroconf, kBrowser).zeroconf
    /\ kBrowser' = DisconnectClient(kZeroconf, kBrowser).browser
    /\ UNCHANGED <<kGateway, kEvent, notConnectVars>>

\* The caller calls disconnect() and may connect again.
ClientDisconnect ==
    /\ kpc = "done"
    /\ kpc' = "idle"
    /\ kZeroconf' = DisconnectClient(kZeroconf, kBrowser).zeroconf
    /\ kBrowser' = DisconnectClient(kZeroconf, kBrowser).browser
    /\ UNCHANGED <<kGateway, kEvent, kResult, notConnectVars>>

(***************************************************************************)
(* src/src/models.py ModelRouter.select_model of the legacy gateway.  A    *)
(* prompt is the number of words re.findall(r'\b\w+\b', text) finds in it. *)
(***************************************************************************)
\* MODELS of src/config/settings.py: the name of each tier.
TierNames ==
    [cheap |-> "meta-llama/llama-3.2-3b-instruct",
     balanced |-> "anthropic/claude-3-haiku-20240307",
     premium |-> "openai/gpt-4o"]

Tiers == {"cheap", "balanced", "premium"}

\* requested_model as a caller gives it: absent, empty, a configured name, or
\* a name MODELS does not have.
RequestedModels ==
    {None} \cup [name : {"", "unknown/model"} \cup {TierNames[t] : t \in Tiers}]

\* estimate_tokens: max(1, int(len(words) / 0.75)); 0.75 is exact in binary
\* and the quotient is never within rounding of an integer it does not equal.
EstimateTokens(words) ==
    IF (4 * words) \div 3 < 1 THEN 1 ELSE (4 * words) \div 3

\* The tier chosen by estimated tokens (lines 52-57).
TierByTokens(estimated_tokens) ==
    IF estimated_tokens < 50 THEN "cheap"
    ELSE IF estimated_tokens < 200 THEN "balanced"
    ELSE "premium"

\* select_model: the tier whose name was requested, else the tier by tokens.
SelectModel(words, requested_model) ==
    IF /\ requested_model # None
       /\ requested_model.name # ""
       /\ \E t \in Tiers : TierNames[t] = requested_model.name
    THEN [tier |-> CHOOSE t \in Tiers : TierNames[t] = requested_model.name]
    ELSE [tier |-> TierByTokens(EstimateTokens(words))]

\* model_router.select_model(request.prompt, request.model)
SelectModelCall ==
    /\ selResult = None
    /\ selResult' = SelectModel(selWords, selRequested)
    /\ UNCHANGED <<selWords, selRequested, notSelectVars>>

(***************************************************************************)
(* The legacy gateway: POST /v1/complete of src/server.py with the usage   *)
(* ledger of src/src/usage_tracker.py.  The handler runs on the event      *)
(* loop up to its await of the upstream call; record_usage runs afterwards *)
(* as a background task in a worker thread.                                *)
(***************************************************************************)
RECURSIVE SumOver(_, _)
SumOver(S, f) ==
    IF S = {} THEN 0
    ELSE LET x == CHOOSE y \in S : TRUE IN f[x] + SumOver(S \ {x}, f)

\* SELECT COUNT(*) FROM usage_log WHERE timestamp > ?
CountSince(table, cutoff) ==
    SumOver({row \in Rows : row.timestamp > cutoff}, table)

\* UsageTracker.get_hourly_request_count
GetHourlyRequestCount(table, time) == CountSince(table, time - Hour)

\* UsageTracker.get_app_breakdown(hours): the apps with a row since the cutoff.
GetAppBreakdown(table, time, hours) ==
    {app \in Apps :
        \E row \in Rows : /\ row.app_id = app
                          /\ row.timestamp > time - hours * Hour
                          /\ table[row] > 0}

\* GET /usage
GetUsage(table, time) ==
    [hourly_requests |-> GetHourlyRequestCount(table, time),
     app_breakdown |-> GetAppBreakdown(table, time, 24)]

\* Mutation of Insert: INSERT OR REPLACE keyed on app_id and timestamp.
Insert_Replace(table, app, time) ==
    [table EXCEPT ![[app_id |-> app, timestamp |-> time]] = 1]

\* INSERT INTO usage_log (timestamp, app_id, ...) VALUES (time.time(), ...)
Insert(table, app, time) ==
    [table EXCEPT ![[app_id |-> app, timestamp |-> time]] = @ + 1]

\* The status complete() answers to the outcome of the upstream call; a 200
\* goes on to the response.
UpstreamStatus(res) ==
    IF res.kind = "timeout" THEN 504
    ELSE IF res.status = 200 THEN 200
    ELSE IF res.status \in {402, 429} THEN res.status
    ELSE 502

\* complete(), lines 120-160: the rate limit, the cost limit, select_model
\* and the request sent upstream, with no await in between.
Arrive(r, app, cost_exceeded) ==
    /\ qpc[r] = "idle"
    /\ qApp' = [qApp EXCEPT ![r] = app]
    /\ qSeen' = [qSeen EXCEPT ![r] = GetHourlyRequestCount(ledger, now)]
    /\ IF GetHourlyRequestCount(ledger, now) >= MaxRequestsPerHour
       THEN /\ qResult' = [qResult EXCEPT ![r] = 429]
            /\ qpc' = [qpc EXCEPT ![r] = "done"]
            /\ qForwarded' = [qForwarded EXCEPT ![r] = FALSE]
            /\ UNCHANGED forwards
       ELSE IF cost_exceeded
       THEN /\ qResult' = [qResult EXCEPT ![r] = 402]
            /\ qpc' = [qpc EXCEPT ![r] = "done"]
            /\ qForwarded' = [qForwarded EXCEPT ![r] = FALSE]
            /\ UNCHANGED forwards
       ELSE /\ qResult' = [qResult EXCEPT ![r] = 0]
            /\ qpc' = [qpc EXCEPT ![r] = "upstream"]
            /\ qForwarded' = [qForwarded EXCEPT ![r] = TRUE]
            /\ forwards' = [forwards EXCEPT ![now] = @ + 1]
    /\ UNCHANGED <<ledger, now, uLock, notLegacyVars>>

\* The upstream call ends: an error is answered at once, a 200 is answered
\* and record_usage is left to the background tasks.
UpstreamAnswers(r, res) ==
    /\ qpc[r] = "upstream"
    /\ qResult' = [qResult EXCEPT ![r] = UpstreamStatus(res)]
    /\ qpc' = [qpc EXCEPT ![r] = IF UpstreamStatus(res) = 200 THEN "background"
                                  ELSE "done"]
    /\ UNCHANGED <<ledger, now, uLock, qApp, qSeen, qForwarded, forwards,
                   notLegacyVars>>

\* record_usage: with self._lock
RecordAcquire(r) ==
    /\ qpc[r] = "background"
    /\ uLock = 0
    /\ uLock' = r
    /\ qpc' = [qpc EXCEPT ![r] = "recording"]
    /\ UNCHANGED <<ledger, now, qApp, qSeen, qResult, qForwarded, forwards,
                   notLegacyVars>>

\* record_usage: the INSERT, the commit and the release of the lock
RecordUsage(r) ==
    /\ qpc[r] = "recording"
    /\ ledger' = Insert(ledger, qApp[r], now)
    /\ uLock' = 0
    /\ qpc' = [qpc EXCEPT ![r] = "recorded"]
    /\ UNCHANGED <<now, qApp, qSeen, qResult, qForwarded, forwards, notLegacyVars>>

\* Time passes.
Tick ==
    /\ now + TickSeconds \in Timestamps
    /\ now' = now + TickSeconds
    /\ UNCHANGED <<ledger, uLock, qpc, qApp, qSeen, qResult, qForwarded, forwards,
                   notLegacyVars>>

(***************************************************************************)
(* src/owui_saturn.py: Pipe.pipes and Pipe.pipe.  A dict of discovered     *)
(* services is the set of its keys: each service advertises the priority   *)
(* PipePriority gives it, the priorities differ, and so the order of       *)
(* services.values() never reaches the order of a sorted list.  A          *)
(* model_service_map entry is the record [service_name, model_id,          *)
(* priority].                                                              *)
(***************************************************************************)
\* Pipe._get_services: the cache while it is fresh and not empty, else the
\* discovery's services, which become the cache.
GetServices(fresh, cached, discovered) ==
    IF fresh /\ cached # {} THEN cached ELSE discovered

\* services.get(service_name) finds a service.
ServiceNamed(svcs, name) == name \in svcs

\* services.values()
ServiceValues(svcs) ==
    LET names == SelectSeq(<<"A", "B", "C">>, LAMBDA name : name \in svcs)
    IN  [i \in 1..Len(names) |->
            [name |-> names[i], priority |-> PipePriority[names[i]]]]

\* Pipe._fetch_models_from_service: one entry per listed model.
FetchModelsFromService(service, listing) ==
    [i \in 1..Len(listing) |->
        [service_name |-> service.name, model_id |-> listing[i],
         priority |-> service.priority]]

\* pipes: the entries of all services, in the order of services.values().
RECURSIVE AllEntries(_, _, _)
AllEntries(values, listings, i) ==
    IF i > Len(values) THEN <<>>
    ELSE FetchModelsFromService(values[i], listings[values[i].name])
            \o AllEntries(values, listings, i + 1)

\* sorted(svc_list, key=lambda x: x["priority"])
SortEntries(entries) ==
    LET order == SortByPriority([i \in 1..Len(entries) |-> i], entries)
    IN  [i \in 1..Len(entries) |-> entries[order[i]]]

\* pipes: model_service_map, an entry appended for every model entry met.
ModelServiceMap(svcs, listings) ==
    LET all == AllEntries(ServiceValues(svcs), listings, 1) IN
    [mid \in ModelIds |->
        SortEntries(SelectSeq(all, LAMBDA entry : entry.model_id = mid))]

\* Pipe._get_fallback_services: the services recorded for the model, in the
\* map's order, but the excluded one and those no longer among the services.
\* Field recorded is history: the priority of the map entry.
GetFallbackServices(map, svcs, model_id, exclude_service) ==
    LET service_list == IF model_id \in DOMAIN map THEN map[model_id] ELSE <<>>
        kept == SelectSeq(service_list,
                          LAMBDA entry : /\ entry.service_name # exclude_service
                                         /\ ServiceNamed(svcs, entry.service_name))
    IN  [i \in 1..Len(kept) |->
            [name |-> kept[i].service_name,
             priority |-> PipePriority[kept[i].service_name],
             recorded |-> kept[i].priority]]

\* Pipe._make_request returns: no exception and a status below 400.
MakeRequestOk(res) == res = "ok"

PipeError(what, last_error) ==
    [kind |-> "error", what |-> what, last_error |-> last_error]

PipeResponse(name) ==
    [kind |-> "response", what |-> name, last_error |-> None]

\* pipe's loop over fallbacks reads neither the discovery nor the map, so a
\* change of them during the loop is taken after pipe has returned.
OutsideLoop == ppc \in {"idle", "primary", "fallbacks"}

\* SaturnServiceListener.add_service and update_service as the pipe's
\* discovery meets them.
PipeServiceAdded(name) ==
    /\ OutsideLoop
    /\ pDiscovered' = pDiscovered \cup {name}
    /\ UNCHANGED <<pCached, pMap, ppc, pPrimary, pModel, pFailover,
                   pFallbacks, pIdx, pLastError, pResult, pRequests>>
    /\ UNCHANGED notPipeVars

\* SaturnServiceListener.remove_service
PipeServiceRemoved(name) ==
    /\ OutsideLoop
    /\ ServiceNamed(pDiscovered, name)
    /\ pDiscovered' = pDiscovered \ {name}
    /\ UNCHANGED <<pCached, pMap, ppc, pPrimary, pModel, pFailover,
                   pFallbacks, pIdx, pLastError, pResult, pRequests>>
    /\ UNCHANGED notPipeVars

\* Pipe.pipes: without services it returns before the map is written.
Pipes(fresh, listings) ==
    LET svcs == GetServices(fresh, pCached, pDiscovered) IN
    /\ OutsideLoop
    /\ pCached' = svcs
    /\ pMap' = IF svcs = {} THEN pMap ELSE ModelServiceMap(svcs, listings)
    /\ UNCHANGED <<pDiscovered, ppc, pPrimary, pModel, pFailover,
                   pFallbacks, pIdx, pLastError, pResult, pRequests>>
    /\ UNCHANGED notPipeVars

\* Pipe.pipe up to the request to the named service.
PipeCall(model_string, enable_failover, fresh) ==
    LET svcs == GetServices(fresh, pCached, pDiscovered) IN
    /\ ppc = "idle"
    /\ pPrimary' = model_string.service_name
    /\ pModel' = model_string.model_id
    /\ pFailover' = enable_failover
    /\ pFallbacks' = <<>>
    /\ pIdx' = 1
    /\ pLastError' = None
    /\ pRequests' = <<>>
    /\ IF model_string.model_id = ""
       THEN /\ ppc' = "done"
            /\ pResult' = PipeError("invalid_model", None)
            /\ pCached' = pCached
       ELSE IF model_string.service_name = ""
       THEN /\ ppc' = "done"
            /\ pResult' = PipeError("no_service_name", None)
            /\ pCached' = pCached
       ELSE /\ pCached' = svcs
            /\ IF ServiceNamed(svcs, model_string.service_name)
               THEN /\ ppc' = "primary"
                    /\ pResult' = None
               ELSE /\ ppc' = "done"
                    /\ pResult' = PipeError("not_found", None)
    /\ UNCHANGED <<pDiscovered, pMap>>
    /\ UNCHANGED notPipeVars

\* pipe has returned: its locals are gone.
PipeReturn ==
    /\ ppc = "done"
    /\ ppc' = "idle"
    /\ pPrimary' = ""
    /\ pModel' = ""
    /\ pFailover' = TRUE
    /\ pFallbacks' = <<>>
    /\ pIdx' = 1
    /\ pLastError' = None
    /\ pResult' = None
    /\ pRequests' = <<>>
    /\ UNCHANGED <<pDiscovered, pCached, pMap>>
    /\ UNCHANGED notPipeVars

\* pipe: the request to the named service answers.
PipePrimary(res) ==
    /\ ppc = "primary"
    /\ pRequests' = Append(pRequests, [service |-> pPrimary, result |-> res])
    /\ IF MakeRequestOk(res)
       THEN /\ ppc' = "done"
            /\ pResult' = PipeResponse(pPrimary)
            /\ pLastError' = pLastError
       ELSE /\ pLastError' = [error |-> res]
            /\ IF ~pFailover
               THEN /\ ppc' = "done"
                    /\ pResult' = PipeError("service_failed", [error |-> res])
               ELSE /\ ppc' = "fallbacks"
                    /\ pResult' = pResult
    /\ UNCHANGED <<pDiscovered, pCached, pMap, pPrimary, pModel,
                   pFailover, pFallbacks, pIdx>>
    /\ UNCHANGED notPipeVars

\* pipe: fallbacks = self._get_fallback_services(model_id, service_name)
PipeGetFallbacks(fresh) ==
    LET svcs == GetServices(fresh, pCached, pDiscovered) IN
    /\ ppc = "fallbacks"
    /\ pCached' = svcs
    /\ pFallbacks' = GetFallbackServices(pMap, svcs, pModel, pPrimary)
    /\ pIdx' = 1
    /\ ppc' = "loop"
    /\ UNCHANGED <<pDiscovered, pMap, pPrimary, pModel, pFailover,
                   pLastError, pResult, pRequests>>
    /\ UNCHANGED notPipeVars

\* pipe: one round of the loop over fallbacks.
PipeFallback(res) ==
    /\ ppc = "loop"
    /\ pIdx <= Len(pFallbacks)
    /\ pRequests' = Append(pRequests,
                           [service |-> pFallbacks[pIdx].name, result |-> res])
    /\ IF MakeRequestOk(res)
       THEN /\ ppc' = "done"
            /\ pResult' = PipeResponse(pFallbacks[pIdx].name)
            /\ UNCHANGED <<pIdx, pLastError>>
       ELSE /\ pLastError' = [error |-> res]
            /\ pIdx' = pIdx + 1
            /\ UNCHANGED <<ppc, pResult>>
    /\ UNCHANGED <<pDiscovered, pCached, pMap, pPrimary, pModel,
                   pFailover, pFallbacks>>
    /\ UNCHANGED notPipeVars

\* pipe: the loop is over and no request succeeded.
PipeAllFailed ==
    /\ ppc = "loop"
    /\ pIdx > Len(pFallbacks)
    /\ ppc' = "done"
    /\ pResult' = PipeError("all_failed", pLastError)
    /\ UNCHANGED <<pDiscovered, pCached, pMap, pPrimary, pModel,
                   pFailover, pFallbacks, pIdx, pLastError, pRequests>>
    /\ UNCHANGED notPipeVars

(***************************************************************************)
(* Specifications                                                          *)
(***************************************************************************)
\* The answers the running gateway's backends give: one accepted, one refused.
GatewayPostResults ==
    {res \in PostResults : res.kind = "response" /\ res.body = "choices"}

\* The advertisements the running gateway is explored with: unresolved, or
\* resolved with an IPv4 address.
GatewayInfos ==
    {info \in Infos : info.resolved => info.addresses # <<>>}

\* The running gateway: the listener thread, the monitor thread and the
\* request handler, which calls route_request(request.model, request_dict)
\* with the default max_retries.
Next ==
    \/ \E name \in Names, info \in GatewayInfos : AddService(name, info)
    \/ \E name \in Names, info \in GatewayInfos : UpdateService(name, info)
    \/ \E name \in Names : RemoveService(name)
    \/ MonSnapshot
    \/ \E res \in HealthResults : MonCheckHealth(res)
    \/ \E res \in FetchResults : MonFetchModels(res)
    \/ \E model \in RequestModels : RouteStart(model, FALSE, DefaultMaxRetries)
    \/ RouteFilterHealthy
    \/ RouteFilterModels
    \/ \E res \in GatewayPostResults : RouteAttempt(res)
    \/ RouteAllFailed
    \/ RouteReturn

Spec == Init /\ [][Next]_vars

\* The listener thread and the monitor thread, with no request in progress.
NextMonitor ==
    \/ \E name \in Names, info \in Infos : AddService(name, info)
    \/ \E name \in Names, info \in Infos : UpdateService(name, info)
    \/ \E name \in Names : RemoveService(name)
    \/ MonSnapshot
    \/ \E res \in HealthResults : MonCheckHealth(res)
    \/ \E res \in FetchResults : MonFetchModels(res)

SpecMonitor == Init /\ [][NextMonitor]_vars

\* The same threads when each is scheduled: time.sleep(check_interval)
\* returns, and every requests.get of the monitor returns or raises within
\* its timeout (3 s and 5 s).
SpecMonitorLive ==
    /\ Init
    /\ [][NextMonitor]_vars
    /\ WF_vars(MonSnapshot)
    /\ WF_vars(\E res \in HealthResults : MonCheckHealth(res))
    /\ WF_vars(\E res \in FetchResults : MonFetchModels(res))

\* The listener and the monitor against backends that come and go.
NextBackends ==
    \/ \E name \in Names, info \in GatewayInfos : QuietAddService(name, info)
    \/ \E name \in Names, info \in GatewayInfos : QuietUpdateService(name, info)
    \/ \E name \in Names : QuietRemoveService(name)
    \/ \E name \in Names : BackendChange(name)
    \/ QuietSnapshot
    \/ \E res \in HealthResults : ProbeBackend(res)
    \/ \E res \in FetchResults : MonFetchModels(res)

\* The monitor thread is scheduled: the sleep and the requests return.
SpecBackends ==
    /\ Init
    /\ [][NextBackends]_vars
    /\ WF_vars(QuietSnapshot)
    /\ WF_vars(\E res \in HealthResults : ProbeBackend(res))
    /\ WF_vars(\E res \in FetchResults : MonFetchModels(res))

\* The chat client's listener under the events of its ServiceBrowser.
NextClient ==
    \/ \E name \in ClientNames, info \in Infos : ClientAddService(name, info)
    \/ \E name \in ClientNames : ClientRemoveService(name)
    \/ \E name \in ClientNames, info \in Infos : ClientUpdateService(name, info)

SpecClient == Init /\ [][NextClient]_vars

\* SaturnDiscovery under the events of its browser and a caller of
\* wait_for_services.
NextSaturn ==
    \/ SaturnStart
    \/ SaturnStop
    \/ \E name \in Names, info \in SaturnInfos : SaturnAddService(name, info)
    \/ \E name \in Names, info \in SaturnInfos : SaturnUpdateService(name, info)
    \/ \E name \in Names : SaturnRemoveService(name)
    \/ WaitStart
    \/ WaitWake
    \/ WaitTimeout
    \/ WaitReturn

SpecSaturn == Init /\ [][NextSaturn]_vars

\* The network the backends start on: some other services already advertise.
InitArbiter ==
    /\ heap = <<>>
    /\ services = <<>>
    /\ probed = {}
    /\ InitIdle
    /\ foreign \in SUBSET ForeignPriorities

\* Backends that start, register and shut down at any time, in any
\* interleaving.
NextArbiter ==
    \/ \E b \in Backends, desired \in DesiredPriorities : ScanPriorities(b, desired)
    \/ \E b \in Backends : RegisterService(b)
    \/ \E b \in Backends : UnregisterService(b)

SpecArbiter == InitArbiter /\ [][NextArbiter]_vars

\* No backend is between its scan and its registration.
NoneScanning == \A b \in Backends : bpc[b] # "scanned"

\* Backends that register one after another: a backend starts its scan only
\* when every registration begun earlier is advertised.
NextArbiterInTurn ==
    \/ \E b \in Backends, desired \in DesiredPriorities :
          NoneScanning /\ ScanPriorities(b, desired)
    \/ \E b \in Backends : RegisterService(b)
    \/ \E b \in Backends : UnregisterService(b)

SpecArbiterInTurn == InitArbiter /\ [][NextArbiterInTurn]_vars

\* The four threads, each at its own pace.
NextLocks ==
    \/ \E t \in Threads : ListenerEvent(t)
    \/ \E t \in Threads, usable \in BOOLEAN : ListenerResolved(t, usable)
    \/ \E t \in Threads : ListenerRemoveEvent(t)
    \/ \E t \in Threads : WantSnapshot(t)
    \/ \E t \in Threads : Acquire(t)
    \/ \E t \in Threads, new \in BOOLEAN : Store(t, new)
    \/ \E t \in Threads, present \in BOOLEAN : Delete(t, present)
    \/ \E t \in Threads, k \in 0..MaxServices : Copy(t, k)
    \/ \E healthy \in BOOLEAN : ProbeChecked(healthy)
    \/ ProbeFetched
    \/ \E ok \in BOOLEAN : Posted(ok)

SpecLocks == Init /\ [][NextLocks]_vars

\* The client library: one client connecting, disconnecting and connecting
\* again while gateways appear and disappear.
NextConnect ==
    \/ ConnectStart
    \/ \E name \in ClientNames, info \in GatewayAdvertisements :
          GatewayAddService(name, info)
    \/ \E name \in ClientNames : GatewayRemoveService(name)
    \/ \E name \in ClientNames, info \in GatewayAdvertisements :
          GatewayUpdateService(name, info)
    \/ ConnectFound
    \/ ConnectTimeout
    \/ ClientDisconnect

SpecConnect == Init /\ [][NextConnect]_vars

\* select_model on every prompt length up to MaxWords and every request.
InitSelect ==
    /\ heap = <<>>
    /\ services = <<>>
    /\ probed = {}
    /\ foreign = {}
    /\ selWords \in 0..MaxWords
    /\ selRequested \in RequestedModels
    /\ selResult = None
    /\ IdleGateway
    /\ IdleBut("select")

NextSelect == SelectModelCall

SpecSelect == InitSelect /\ [][NextSelect]_vars

\* The legacy gateway at time 0 with a ledger of earlier requests, each of
\* which was sent upstream.
EarlierRequests == {0, 2, MaxRequestsPerHour - 1, MaxRequestsPerHour}

InitLegacy ==
    /\ heap = <<>>
    /\ services = <<>>
    /\ probed = {}
    /\ foreign = {}
    /\ IdleGateway
    /\ IdleBut("legacy")
    /\ \E k \in EarlierRequests :
          /\ ledger = [row \in Rows |->
                         IF row = [app_id |-> "B", timestamp |-> 0] THEN k ELSE 0]
          /\ forwards = [t \in Timestamps |-> IF t = 0 THEN k ELSE 0]

NextLegacy ==
    \/ \E r \in Requests, app \in Apps, cost_exceeded \in BOOLEAN :
          Arrive(r, app, cost_exceeded)
    \/ \E r \in Requests, res \in UpstreamResults : UpstreamAnswers(r, res)
    \/ \E r \in Requests : RecordAcquire(r)
    \/ \E r \in Requests : RecordUsage(r)
    \/ Tick

SpecLegacy == InitLegacy /\ [][NextLegacy]_vars

\* The Open WebUI pipe with any services discovered at its first call.
InitPipe ==
    /\ heap = <<>>
    /\ services = <<>>
    /\ probed = {}
    /\ foreign = {}
    /\ IdleGateway
    /\ IdleBut("pipe")
    /\ pDiscovered \in SUBSET ClientNames

NextPipe ==
    \/ \E name \in ClientNames : PipeServiceAdded(name)
    \/ \E name \in ClientNames : PipeServiceRemoved(name)
    \/ \E fresh \in BOOLEAN, listings \in [ClientNames -> ModelListings] :
          Pipes(fresh, listings)
    \/ \E model_string \in ModelStrings, enable_failover, fresh \in BOOLEAN :
          PipeCall(model_string, enable_failover, fresh)
    \/ \E res \in PipePostResults : PipePrimary(res)
    \/ \E fresh \in BOOLEAN : PipeGetFallbacks(fresh)
    \/ \E res \in PipePostResults : PipeFallback(res)
    \/ PipeAllFailed
    \/ PipeReturn

SpecPipe == InitPipe /\ [][NextPipe]_vars

\* What a record can hold: never probed; in its first probe, found healthy,
\* before or after its models are fetched; or probed, with any health and any
\* model list of its last healthy probe.
RecordStates ==
    {[is_healthy |-> FALSE, available_models |-> <<>>, first_check_complete |-> FALSE]}
    \cup [is_healthy : {TRUE}, available_models : ModelLists,
          first_check_complete : {FALSE}]
    \cup [is_healthy : BOOLEAN, available_models : ModelLists,
          first_check_complete : {TRUE}]

RecordVariants == [priority : {10, DefaultPriority}, state : RecordStates]

\* The registry holding the first k service names, discovered in that order.
RegistriesOfSize(k) ==
    {[i \in 1..k |->
        [AIService(ServiceNames[i], "10.0.0.1", 8080, v[i].priority)
            EXCEPT !.is_healthy = v[i].state.is_healthy,
                   !.available_models = v[i].state.available_models,
                   !.first_check_complete = v[i].state.first_check_complete]]
     : v \in [1..k -> RecordVariants]}

\* route_request called directly, with any max_retries, on a registry that
\* discovery and the monitor have left in any of the states they can.
InitRouter ==
    /\ \E k \in 0..MaxServices :
        /\ heap \in RegistriesOfSize(k)
        /\ services = [i \in 1..k |-> i]
    /\ probed = {o \in 1..Len(heap) : heap[o].first_check_complete}
    /\ InitThreads

NextRouter ==
    \/ \E model \in RequestModels, stream \in BOOLEAN, n \in 0..MaxRetriesArg :
          RouteStart(model, stream, n)
    \/ RouteFilterHealthy
    \/ RouteFilterModels
    \/ \E res \in PostResults : RouteAttempt(res)
    \/ RouteAllFailed
    \/ RouteReturn

SpecRouter == InitRouter /\ [][NextRouter]_vars

\* Chat-completions requests, well-formed or not, on a registry that
\* discovery and the monitor have left in any of the states they can.
NextRequest ==
    \/ \E body \in RequestBodies : ChatCompletions(body)
    \/ RouteFilterHealthy
    \/ RouteFilterModels
    \/ \E res \in PostResults : RouteAttempt(res)
    \/ RouteAllFailed
    \/ RouteReturn

SpecRequest == InitRouter /\ [][NextRequest]_vars

\* What a backend's /v1/models answer lists, for the two endpoints.
ApiModelLists == {<<>>, <<"m1">>, <<"m1", "m2">>, <<"m2", "m2">>}

\* The registry holding the first k service names, each record with any
\* health and any model list of its last healthy probe.
ApiRegistriesOfSize(k) ==
    {[i \in 1..k |->
        [AIService(ServiceNames[i], "10.0.0.1", 8080, DefaultPriority)
            EXCEPT !.is_healthy = v[i].is_healthy,
                   !.available_models = v[i].available_models,
                   !.first_check_complete =
                       v[i].is_healthy \/ v[i].available_models # <<>>]]
     : v \in [1..k -> [is_healthy : BOOLEAN, available_models : ApiModelLists]]}

\* The two read-only endpoints called on a registry that discovery and the
\* monitor have left in any state.
InitApi ==
    /\ \E k \in 0..MaxServices :
        /\ heap \in ApiRegistriesOfSize(k)
        /\ services = [i \in 1..k |-> i]
    /\ probed = {o \in 1..Len(heap) : heap[o].first_check_complete}
    /\ InitThreads

NextApi ==
    \/ GetHealth
    \/ GetModels

SpecApi == InitApi /\ [][NextApi]_vars

\* The answers of the backends to a streaming request: no answer in time, a
\* refusal, an event stream.
StreamPostResults ==
    {[kind |-> "timeout"],
     [kind |-> "response", status |-> 500, body |-> "not_json"],
     [kind |-> "response", status |-> 200, body |-> "not_json"]}

\* Two healthy services that serve the model, the first with the lower
\* priority number.
InitStream ==
    /\ heap = [i \in 1..2 |->
                [AIService(ServiceNames[i], "10.0.0.1", 8080,
                           IF i = 1 THEN 10 ELSE DefaultPriority)
                    EXCEPT !.is_healthy = TRUE,
                           !.available_models = <<"m1">>,
                           !.first_check_complete = TRUE]]
    /\ services = <<1, 2>>
    /\ probed = {1, 2}
    /\ InitThreads

\* chat_completions on a streaming request: route_request, then the
\* generator over the response it returned.
NextStream ==
    \/ \E model \in RequestModels : RouteStart(model, TRUE, DefaultMaxRetries)
    \/ RouteFilterHealthy
    \/ RouteFilterModels
    \/ \E res \in StreamPostResults : RouteAttempt(res)
    \/ RouteAllFailed
    \/ (rpc = "done" /\ rResult.status # 200 /\ RouteReturn)
    \/ \E stream \in Streams : GenStart(stream)
    \/ GenRead
    \/ GenCheck
    \/ GenYield
    \/ Disconnect
    \/ StreamReturn

SpecStream == InitStream /\ [][NextStream]_vars

(***************************************************************************)
(* route_request on a registry nothing else writes during the call         *)
(* (SpecRouter): the registry of every state is the one the call started   *)
(* on.                                                                     *)
(***************************************************************************)
\* A success: status 200 and, for a non-streaming call, a JSON body holding
\* "choices".
IsSuccess(res, is_streaming) ==
    /\ res.kind = "response"
    /\ res.status = 200
    /\ (~is_streaming => res.body = "choices")

\* The registered services that are healthy and advertise the requested model.
EligibleNow == Eligible(services, heap, rModel)

\* The members of S no member of S has a lower priority number than.
LowestOf(S) == {o \in S : \A p \in S : heap[o].priority <= heap[p].priority}

AllPostsFailed == \A i \in 1..Len(posts) : ~IsSuccess(posts[i].res, rStream)

\* C1: the first backend route_request sends the request to has the
\* numerically lowest priority among the healthy services advertising the
\* requested model.
C1_FirstAttemptLowestPriority ==
    posts # <<>> => posts[1].to \in LowestOf(EligibleNow)

\* A request was sent while the service discovered second had the lower
\* priority number, both services being eligible.
C1_Witness ==
    /\ posts # <<>>
    /\ Len(services) = 2
    /\ Range(services) = EligibleNow
    /\ heap[services[2]].priority < heap[services[1]].priority

\* C2: with two or more eligible services and max_retries >= 2, a failure of
\* the lowest-priority one (timeout, status other than 200, body that is not
\* JSON or lacks "choices") is followed by an attempt on the next-lowest before
\* the call fails, and a success of that second attempt is what the call
\* returns.
C2_FailoverToNextLowest ==
    (/\ Cardinality(EligibleNow) >= 2
     /\ rMaxRetries >= 2
     /\ posts # <<>>
     /\ ~IsSuccess(posts[1].res, rStream))
    => /\ rpc = "done" => Len(posts) >= 2
       /\ Len(posts) >= 2 =>
            /\ posts[2].to \in LowestOf(EligibleNow \ {posts[1].to})
            /\ IsSuccess(posts[2].res, rStream) =>
                  /\ rpc = "done"
                  /\ rResult = [status |-> 200, from |-> posts[2].to]

\* The first attempt failed, the second succeeded and the call returned.
C2_Witness ==
    /\ rpc = "done"
    /\ Len(posts) = 2
    /\ ~IsSuccess(posts[1].res, rStream)
    /\ IsSuccess(posts[2].res, rStream)
    /\ heap[posts[1].to].priority < heap[posts[2].to].priority

\* C3: when no registered service is both healthy and advertising the model
\* (an empty registry included), the call ends with 404 and has sent no HTTP
\* request.
C3_NoEligibleIs404 ==
    (rpc \in {"attempt", "done"} /\ EligibleNow = {})
    => /\ posts = <<>>
       /\ rpc = "done"
       /\ rResult = [status |-> 404]

\* A call ended while one service was unhealthy with the model in its stale
\* list and the other healthy without the model.
C3_Witness ==
    /\ rpc = "done"
    /\ EligibleNow = {}
    /\ \E o \in Range(services) :
         ~heap[o].is_healthy /\ Contains(heap[o].available_models, rModel)
    /\ \E o \in Range(services) :
         heap[o].is_healthy /\ ~Contains(heap[o].available_models, rModel)

\* C4: when every attempt of the call failed, the call ends with 502, the
\* message carrying the error of the last service attempted; the failure is
\* not the 404 of C3.
C4_AllFailedIs502 ==
    (rpc = "done" /\ posts # <<>> /\ AllPostsFailed)
    => LET last == posts[Len(posts)] IN
       /\ rResult.status = 502
       /\ rResult.status # 404
       /\ rResult.detail = [service |-> heap[last.to].name,
                            error |-> AttemptOutcome(last.res, rStream)]

\* Two services failed in different ways and the call ended.
C4_Witness ==
    /\ rpc = "done"
    /\ Len(posts) = 2
    /\ AllPostsFailed
    /\ AttemptOutcome(posts[1].res, rStream) # AttemptOutcome(posts[2].res, rStream)

\* C5: the first successful attempt ends the call: its response is returned
\* and no further candidate is contacted.
C5_FirstSuccessReturned ==
    \A i \in 1..Len(posts) :
        IsSuccess(posts[i].res, rStream) =>
            /\ i = Len(posts)
            /\ rpc = "done"
            /\ rResult = [status |-> 200, from |-> posts[i].to]

\* The first candidate of a streaming call answered 200 and the call returned
\* with a second candidate left to try.
C5_Witness ==
    /\ rpc = "done"
    /\ rStream
    /\ Len(posts) = 1
    /\ IsSuccess(posts[1].res, rStream)
    /\ Len(LoopOver(rCandidates, rMaxRetries)) >= 2

\* C6: one call sends the request to at most max_retries backends, and to
\* none of them twice.
C6_AtMostMaxRetries ==
    /\ Len(posts) <= rMaxRetries
    /\ \A i, j \in 1..Len(posts) :
         i # j => heap[posts[i].to].name # heap[posts[j].to].name

\* A call gave up after max_retries failures with more services eligible.
C6_Witness ==
    /\ rpc = "done"
    /\ rMaxRetries >= 1
    /\ Len(posts) = rMaxRetries
    /\ AllPostsFailed
    /\ Cardinality(EligibleNow) > rMaxRetries

(***************************************************************************)
(* route_request while the listener and the monitor run (Spec)             *)
(***************************************************************************)
\* C7: the backends one call attempts are, in order, the services that were
\* healthy and advertising the model in the snapshot taken at the start of
\* the call, by non-decreasing priority; discovery events and health-probe
\* writes interleaving with the call do not change that sequence.
C7_AttemptsFollowStartSnapshot ==
    /\ \A i \in 1..Len(posts) : i <= Len(rStart) /\ posts[i].to = rStart[i]
    /\ \A i, j \in 1..Len(posts) :
         i < j => heap[posts[i].to].priority <= heap[posts[j].to].priority

\* C8: a request is sent only to services that, in the snapshot taken at the
\* start of the call, were healthy and listed the requested model; a service
\* not yet successfully probed, or unhealthy with a stale model list, at that
\* moment is sent nothing.
C8_OnlyEligibleAtStart ==
    \A i \in 1..Len(posts) : posts[i].to \in Range(rStart)

(***************************************************************************)
(* The registry under the listener and the monitor (SpecMonitor)           *)
(***************************************************************************)
Registered(svcs, h, name) == KeyIndex(svcs, h, name) # 0

\* C9: once a remove event for a name is processed, get_all_services() holds
\* no record of that name until an add or update event for the name is
\* processed, whatever the record's health was and even with a probe of it in
\* flight: a remove leaves the name out, and only an add or update step puts
\* an absent name in.
C9_RemovedStaysAbsent ==
    [][\A name \in Names :
         /\ RemoveService(name) => ~Registered(services', heap', name)
         /\ (~Registered(services, heap, name) /\ Registered(services', heap', name))
               => \E info \in Infos :
                     AddService(name, info) \/ UpdateService(name, info)]_vars

\* The monitor is between the two requests of a probe of a record, found
\* healthy, whose name has been removed from the registry.
C9_Witness ==
    /\ mpc = "fetch"
    /\ heap[mServices[mIdx]].is_healthy
    /\ ~Registered(services, heap, heap[mServices[mIdx]].name)

\* C10: the monitor reports "<name> is now healthy/unhealthy" only for a
\* record whose first_check_complete was true before the probe and whose
\* probe result differs from its previous is_healthy; the first probe of a
\* record reports nothing.
C10_TransitionOnlyAfterFirstCheck ==
    lastLog # None =>
        /\ lastLog.before.first_check_complete
        /\ lastLog.before.probed
        /\ (lastLog.status = "healthy") # lastLog.before.is_healthy

\* A record already probed is reported as now healthy.
C10_Witness ==
    /\ lastLog # None
    /\ lastLog.status = "healthy"

\* A step of the monitor's probe of one record.
MonitorStep ==
    \/ \E res \in HealthResults : MonCheckHealth(res)
    \/ \E res \in FetchResults : MonFetchModels(res)

\* A listener callback.
ListenerStep ==
    \E name \in Names :
        \/ RemoveService(name)
        \/ \E info \in Infos : AddService(name, info) \/ UpdateService(name, info)

\* C18: get_all_services() returns a deep copy: a write to a field of a
\* record obtained from a snapshot (the monitor's probe results) does not
\* change the registry's record, and a registry mutation does not change a
\* record held from an earlier snapshot.
C18_SnapshotIsDeepCopy ==
    [][/\ MonitorStep => \A o \in Range(services) : heap'[o] = heap[o]
       /\ (ListenerStep /\ mpc # "sleep")
             => \A i \in mIdx..Len(mServices) :
                   heap'[mServices[i]] = heap[mServices[i]]]_vars

\* The liveness probe failed: connection error, timeout or a status other
\* than 200.
ProbeFailed(res) == res.kind # "response" \/ res.status # 200

\* C19: a failed liveness probe of a record sets is_healthy to false and
\* leaves the record's available_models as it was before the probe.
C19_FailedProbeKeepsModels ==
    [][\A res \in HealthResults :
         (ProbeFailed(res) /\ MonCheckHealth(res))
         => LET o == mServices[mIdx] IN
            heap'[o] # Freed =>
                /\ ~heap'[o].is_healthy
                /\ heap'[o].available_models = heap[o].available_models]_vars

\* A registered record that listed models has just been reported unhealthy
\* and still lists them.
C19_Witness ==
    /\ lastLog # None
    /\ lastLog.status = "unhealthy"
    /\ \E o \in Range(services) :
         /\ heap[o].name = lastLog.service
         /\ ~heap[o].is_healthy
         /\ heap[o].first_check_complete
         /\ heap[o].available_models # <<>>

\* The advertisement cannot be resolved or carries no address.
Unusable(info) == ~info.resolved \/ info.addresses = <<>>

\* C20: an add or update event whose advertisement cannot be resolved or has
\* no address is silently ignored: the callback raises nothing, no record is
\* created and no existing record changes.
C20_UnusableAdvertisementIgnored ==
    [][\A name \in Names, info \in Infos :
         (Unusable(info) /\ (AddService(name, info) \/ UpdateService(name, info)))
         => /\ lError' = None
            /\ services' = services
            /\ heap' = heap]_vars

(***************************************************************************)
(* The read-only endpoints (SpecApi)                                       *)
(***************************************************************************)
HealthyRecords == {o \in Range(services) : heap[o].is_healthy}

\* C15: when the registry is empty, or no healthy service lists a model,
\* GET /v1/models answers with the successful body {"models": []}.
C15_EmptyModelList ==
    (/\ apiResult # None
     /\ apiResult.endpoint = "models"
     /\ \A o \in HealthyRecords : heap[o].available_models = <<>>)
    => /\ apiResult.status = 200
       /\ apiResult.body = [models |-> <<>>]

\* C15 as the code has it: when the registry is empty, or no healthy service
\* lists a model, GET /v1/models fails with 503 "No models available from
\* any ZeroconfAI service"; it answers with a body only when some healthy
\* service lists a model.
C15_EmptyModelListIs503 ==
    (apiResult # None /\ apiResult.endpoint = "models")
    => IF \A o \in HealthyRecords : heap[o].available_models = <<>>
       THEN /\ apiResult.status = 503
            /\ apiResult.detail = "No models available from any ZeroconfAI service"
       ELSE /\ apiResult.status = 200
            /\ apiResult.body.models # <<>>

\* GET /v1/models failed on a registry whose only model is the stale one of
\* an unhealthy record.
C15_Witness ==
    /\ apiResult # None
    /\ apiResult.endpoint = "models"
    /\ apiResult.status = 503
    /\ HealthyRecords # {}
    /\ \E o \in Range(services) : heap[o].available_models # <<>>

\* C16: GET /v1/health reports services = the number of healthy records,
\* total_services = the number of registered records, so that services <=
\* total_services, and status "no_services" exactly when no record is
\* healthy, "ok" otherwise.
C16_HealthCounts ==
    (apiResult # None /\ apiResult.endpoint = "health")
    => /\ apiResult.body.services = Cardinality(HealthyRecords)
       /\ apiResult.body.total_services = Len(services)
       /\ apiResult.body.services <= apiResult.body.total_services
       /\ apiResult.body.status =
            IF Cardinality(HealthyRecords) = 0 THEN "no_services" ELSE "ok"

\* GET /v1/health answered on a registry of one healthy and one unhealthy
\* record.
C16_Witness ==
    /\ apiResult # None
    /\ apiResult.endpoint = "health"
    /\ Len(services) = 2
    /\ Cardinality(HealthyRecords) = 1

\* C17: the list of get_all_models holds each model id once, its ids are the
\* union of available_models over the healthy services, and each entry names
\* the backends serving the model.
C17_ModelListAnnotated ==
    (apiResult # None /\ apiResult.endpoint = "models" /\ apiResult.status = 200)
    => LET models == apiResult.body.models
           Serving(id) == {heap[o].name : o \in {p \in HealthyRecords :
                                Contains(heap[p].available_models, id)}}
       IN  /\ \A i, j \in 1..Len(models) : i # j => models[i].id # models[j].id
           /\ {models[i].id : i \in 1..Len(models)}
                = UNION {Range(heap[o].available_models) : o \in HealthyRecords}
           /\ \A i \in 1..Len(models) : {models[i].owned_by} = Serving(models[i].id)

\* The first healthy service, in registry order, that lists the model.
FirstServing(id) ==
    LET i == CHOOSE k \in 1..Len(services) :
                /\ heap[services[k]].is_healthy
                /\ Contains(heap[services[k]].available_models, id)
                /\ \A l \in 1..(k - 1) :
                     ~(/\ heap[services[l]].is_healthy
                       /\ Contains(heap[services[l]].available_models, id))
    IN  heap[services[i]].name

\* C17 as the code has it: the list holds each model id once, its ids are
\* the union of available_models over the healthy services, and each entry
\* names, as owned_by, the first healthy service that lists the model.
C17_ModelListOwnedByFirst ==
    (apiResult # None /\ apiResult.endpoint = "models" /\ apiResult.status = 200)
    => LET models == apiResult.body.models
       IN  /\ \A i, j \in 1..Len(models) : i # j => models[i].id # models[j].id
           /\ {models[i].id : i \in 1..Len(models)}
                = UNION {Range(heap[o].available_models) : o \in HealthyRecords}
           /\ \A i \in 1..Len(models) :
                models[i].owned_by = FirstServing(models[i].id)

\* Two healthy services list the same model, the second one more: the list
\* has two entries with different owners.
C17_Witness ==
    /\ apiResult # None
    /\ apiResult.endpoint = "models"
    /\ apiResult.status = 200
    /\ Len(services) = 2
    /\ \A o \in Range(services) :
         heap[o].is_healthy /\ Contains(heap[o].available_models, "m1")
    /\ Len(apiResult.body.models) = 2
    /\ apiResult.body.models[1].owned_by # apiResult.body.models[2].owned_by

(***************************************************************************)
(* The streaming passthrough (SpecStream).                                 *)
(***************************************************************************)
WellFormed(chunk) == chunk \in {"c1", "c2", "[DONE]"}

\* N well-formed chunks followed by [DONE].
CompleteStream(sent) ==
    /\ sent # <<>>
    /\ sent[Len(sent)] = "[DONE]"
    /\ \A i \in 1..(Len(sent) - 1) : sent[i] \in {"c1", "c2"}

StreamOver == gpc = "closed"

\* C11: when the backend sends N well-formed chunks followed by [DONE] and
\* the caller stays connected, the caller receives exactly those N chunks,
\* in the backend's order and unchanged, followed by exactly one [DONE].
C11_StreamDeliveredInOrder ==
    (StreamOver /\ ~gDisconnected /\ CompleteStream(gSent))
        => (gOut = gSent /\ gError = None)

C11_Witness ==
    /\ StreamOver
    /\ ~gDisconnected
    /\ gSent = <<"c1", "c2", "[DONE]">>
    /\ gOut = gSent

C13_NoRetryAfterFirstChunk ==
    [][(gOut # <<>> /\ gOut' # <<>>) => posts' = posts]_vars

C13_Witness ==
    /\ StreamOver
    /\ gOut # <<>>
    /\ gError # None
    /\ Len(posts) < Len(LoopOver(rCandidates, rMaxRetries))

\* C14: a malformed chunk is skipped and the stream continues: the stream is
\* not aborted, and the caller receives the well-formed chunks of the
\* response, those after a malformed chunk included, and nothing else.
C14_MalformedChunkSkipped ==
    (StreamOver /\ ~gDisconnected)
        => /\ gError = None
           /\ gOut = SelectSeq(gSent, WellFormed)

(***************************************************************************)
(* Discovery events on a registered name, the probe's write-back and the   *)
(* order of candidates                                                     *)
(***************************************************************************)
\* The record registered under name in registry svcs of heap h.
RecordOf(svcs, h, name) == h[svcs[KeyIndex(svcs, h, name)]]

\* C22: an add or update event for a name that is already registered changes
\* only the record's address, port and priority: is_healthy, available_models
\* and first_check_complete of the registered record are as before the event.
C22_DiscoveryKeepsHealthFields ==
    [][\A name \in Names, info \in Infos :
         (/\ Registered(services, heap, name)
          /\ (AddService(name, info) \/ UpdateService(name, info)))
         => LET old == RecordOf(services, heap, name)
                new == RecordOf(services', heap', name) IN
            /\ new.is_healthy = old.is_healthy
            /\ new.available_models = old.available_models
            /\ new.first_check_complete = old.first_check_complete]_vars

\* C23: the write-back of one probe's results is atomic for readers: a record
\* that get_all_services returns never carries the is_healthy of a probe
\* whose available_models are not yet written.
C23_ProbeWriteBackAtomic ==
    mpc = "fetch" =>
        \A o \in Range(GetAllServices) :
            o = mServices[mIdx] => heap[o].is_healthy = mBefore.is_healthy

\* The position of object o in the registry: its discovery order.
DiscoveryPos(o) == CHOOSE i \in 1..Len(services) : services[i] = o

\* C29: route_request attempts candidates in ascending priority and, among
\* candidates of equal priority, in discovery order; the order of attempts
\* is a function of the registry state.
C29_TiesInDiscoveryOrder ==
    \A i, j \in 1..Len(posts) :
        i < j =>
            LET a == posts[i].to
                b == posts[j].to IN
            \/ heap[a].priority < heap[b].priority
            \/ /\ heap[a].priority = heap[b].priority
               /\ DiscoveryPos(a) < DiscoveryPos(b)

\* Two candidates of equal priority were attempted.
C29_Witness ==
    /\ Len(posts) = 2
    /\ heap[posts[1].to].priority = heap[posts[2].to].priority
    /\ posts[1].to = services[1]
    /\ posts[2].to = services[2]

(***************************************************************************)
(* The chat client's listener (SpecClient)                                 *)
(***************************************************************************)
\* C21: an update event for a name leaves the registry, and the callbacks it
\* invoked, exactly as an add event for that name with the same
\* advertisement would.
C21_UpdateIsAdd ==
    [][\A name \in ClientNames, info \in Infos :
         ClientUpdateService(name, info)
         => LET added == ClientAdd(ClientListener, name, info) IN
            /\ cServices' = added.services
            /\ cFired' = added.fired
            /\ cEvent' = added.event]_vars

(***************************************************************************)
(* The first-discovery signal (SpecSaturn)                                 *)
(***************************************************************************)
\* The advertisement resolves and carries an address.
Usable(info) == info.resolved /\ info.addresses # <<>>

SaturnEvent(name, info) ==
    SaturnAddService(name, info) \/ SaturnUpdateService(name, info)

Scanned == {b \in Backends : bpc[b] \in {"scanned", "registered"}}

RegisteredBackends == {b \in Backends : bpc[b] = "registered"}

\* C26: find_available_priority returns the smallest integer p >= desired
\* that is not among the priorities observed; it returns desired exactly when
\* desired was not observed, and never a value below desired.
C26_SmallestFreePriority ==
    \A b \in Scanned :
        /\ bActual[b] >= bDesired[b]
        /\ bActual[b] \notin bObserved[b]
        /\ \A p \in bDesired[b]..(bActual[b] - 1) : p \in bObserved[b]
        /\ (bActual[b] = bDesired[b]) <=> (bDesired[b] \notin bObserved[b])

\* A scan that had to step over two observed priorities.
C26_Witness ==
    \E b \in Scanned :
        /\ bActual[b] = bDesired[b] + 2
        /\ {bDesired[b], bDesired[b] + 1} \subseteq bObserved[b]

\* C27: when backends register one after another, no two registered backends
\* advertise the same priority, whatever priorities they were started with.
C27_InTurnPrioritiesDistinct ==
    \A a, b \in RegisteredBackends : a # b => bActual[a] # bActual[b]

\* Two backends started with the same priority are both registered.
C27_Witness ==
    \E a, b \in RegisteredBackends :
        /\ a # b
        /\ bDesired[a] = bDesired[b]
        /\ bActual[a] # bActual[b]

\* C28: under concurrent registration two backends can advertise the same
\* priority; they do so only when each ran find_available_priority before
\* the other's advertisement could be observed.
C28_CollisionOnlyByRace ==
    \A a, b \in RegisteredBackends :
        (a # b /\ bActual[a] = bActual[b])
            => /\ bActual[a] \notin bObserved[b]
               /\ bActual[b] \notin bObserved[a]

\* Two backends started with the same priority advertise the same priority.
C28_Witness ==
    \E a, b \in RegisteredBackends :
        /\ a # b
        /\ bDesired[a] = bDesired[b]
        /\ bActual[a] = bActual[b]

(***************************************************************************)
(* Request validation (SpecRequest)                                        *)
(***************************************************************************)
\* The body misses model or messages, or one of them has the wrong type.
MissingOrMistyped(body) ==
    \/ body.model.type # "string"
    \/ body.messages.type # "array"

\* A message of the body has a role outside user/assistant/system, or a role
\* or content that is missing or not a string.
BadMessage(body) ==
    /\ body.messages.type = "array"
    /\ \E i \in 1..Len(body.messages.items) :
         LET msg == body.messages.items[i] IN
         \/ msg.role.type # "string"
         \/ msg.content.type # "string"
         \/ msg.role.value \notin {"user", "assistant", "system"}

Malformed(body) ==
    MissingOrMistyped(body) \/ BadMessage(body) \/ body.stream.type = "string"

InNetworkCall(t) == tpc[t] \in {"resolve", "check", "fetch", "post"}

HoldsLock(t) == \E l \in Locks : lockHolder[l] = t

\* C24: no thread that holds the registry lock is performing a network call.
C24_NoNetworkCallUnderLock ==
    \A t \in Threads : InNetworkCall(t) => ~HoldsLock(t)

\* The monitor is probing and a request is being forwarded while the
\* listener is inside its `with discovery.lock` block.
C24_Witness ==
    /\ tpc["monitor"] \in {"check", "fetch"}
    /\ tpc["handler"] = "post"
    /\ lockHolder["discovery"] = "listener"

(***************************************************************************)
(* The monitor under backend outages (SpecMonitorLive)                     *)
(***************************************************************************)
\* C31: a backend outage never stops the health monitor.  However a probe
\* of one service fails, the for loop goes on to the next service of the
\* cycle's snapshot: the cycle ends only after the last one and no index is
\* skipped; every probe ends; the monitor is asleep between cycles again and
\* again, and with a service registered the next cycle starts.
C31_MonitorSurvivesOutages ==
    /\ [][(mpc # "sleep" /\ mpc' = "sleep") => mIdx = Len(mServices)]_vars
    /\ [][(mpc # "sleep" /\ mIdx' # mIdx)
            => (mIdx' = mIdx + 1 \/ mpc' = "sleep")]_vars
    /\ \A i \in 1..MaxObjects :
          (mpc = "check" /\ mIdx = i) ~> (mpc = "sleep" \/ mIdx = i + 1)
    /\ []<>(mpc = "sleep")
    /\ (mpc = "sleep" /\ services # <<>>) ~> (mpc = "check" \/ services = <<>>)

\* The probe of the first service of the snapshot failed and the monitor is
\* about to probe the second.
C31_Witness ==
    /\ mpc = "check"
    /\ mIdx = 2
    /\ heap[mServices[1]] # Freed
    /\ heap[mServices[1]].first_check_complete
    /\ ~heap[mServices[1]].is_healthy

(***************************************************************************)
(* What a probe cycle writes (SpecMonitor)                                 *)
(***************************************************************************)
\* The fields of a record the listener sets and the monitor only reads.
Identity(svc) == <<svc.name, svc.address, svc.port, svc.priority>>

\* C35: a step of the health monitor (the snapshot and the two requests of a
\* probe) leaves the dict as it was, with the same objects under the same
\* names in the same order, and leaves name, address, port and priority of
\* every record as they were; a probe that ends after its service was
\* removed does not put the service back.
C35_ProbeWritesHealthFieldsOnly ==
    [][(MonSnapshot \/ MonitorStep)
          => /\ services' = services
             /\ Len(heap') = Len(heap)
             /\ \A o \in Range(services) : heap'[o] # Freed
             /\ \A o \in 1..Len(heap) :
                   (heap[o] # Freed /\ heap'[o] # Freed)
                      => Identity(heap'[o]) = Identity(heap[o])]_vars

\* The monitor has just reported a transition of a record whose name is not
\* in the registry: the probe ended after the service was removed.
C35_Witness ==
    /\ lastLog # None
    /\ ~Registered(services, heap, lastLog.service)

\* The model-list fetch failed: an exception, a status other than 200, or a
\* body the ids cannot be read from.
FetchFailed(res) ==
    res.kind # "response" \/ res.status # 200 \/ res.body # "models"

\* C37: when the liveness probe of a record succeeded and its model-list
\* fetch fails, the record keeps the available_models it had.
C37_FailedFetchKeepsModels ==
    [][\A res \in FetchResults :
         (FetchFailed(res) /\ MonFetchModels(res))
         => LET o == mServices[mIdx] IN
            heap'[o] # Freed
               => heap'[o].available_models = heap[o].available_models]_vars

(***************************************************************************)
(* Convergence of the registry's health to the backends (SpecBackends)     *)
(***************************************************************************)
\* The registry's record of name agrees with its backend and has been probed.
Converged(name) ==
    /\ RecordOf(services, heap, name).is_healthy = (name \in alive)
    /\ RecordOf(services, heap, name).first_check_complete

\* A step that is no discovery event for name and leaves its backend's
\* liveness as it was.
LeavesAlone(name) ==
    /\ ~QuietRemoveService(name)
    /\ \A info \in GatewayInfos :
          ~QuietAddService(name, info) /\ ~QuietUpdateService(name, info)
    /\ (name \in alive') = (name \in alive)

\* C38: if from some point on no discovery event occurs for a registered
\* service and its backend keeps answering the liveness probe the same way,
\* then, the monitor being scheduled, the record's is_healthy eventually
\* equals the backend's liveness with first_check_complete true, and both
\* stay so; and one whole cycle of the monitor that leaves the name alone
\* from its snapshot on is enough, so that an update that replaced the
\* record while a probe was in flight costs at most one further cycle.
C38_HealthConverges ==
    /\ \A name \in Names :
          <>[][LeavesAlone(name)]_vars
             => <>[](Registered(services, heap, name) => Converged(name))
    /\ [](\A name \in Names :
            (mpc = "sleep" /\ name \in mQuiet /\ Registered(services, heap, name))
               => Converged(name))

\* A record that was healthy has been found unhealthy in a cycle that left
\* its name alone, its backend having stopped answering.
C38_Witness ==
    /\ mpc = "sleep"
    /\ lastLog # None
    /\ lastLog.status = "unhealthy"
    /\ lastLog.service \in mQuiet
    /\ lastLog.service \notin alive
    /\ Registered(services, heap, lastLog.service)

(***************************************************************************)
(* The backend connections of a streaming request (SpecStream)             *)
(***************************************************************************)
\* C36: a streaming response of a candidate treated as failed is closed
\* before the next candidate is tried or the 502 is raised, so that when
\* route_request ends the only backend connection open is the one returned,
\* which the generator closes when it ends.
C36_FailedResponsesClosed ==
    /\ rpc \in {"attempt", "done"} => UnclosedResponses(posts, rStream) = {}
    /\ gpc = "closed" => UnclosedResponses(posts, rStream) = {}

(***************************************************************************)
(* The client library's connect (SpecConnect)                              *)
(***************************************************************************)
\* C32: whenever connect() returns True, discovery.gateway is populated with
\* a host and a port > 0 at the moment connect returns; whenever it returns
\* False, zeroconf and browser are None.
C32_ConnectResult ==
    [][(kpc = "waiting" /\ kpc' = "done")
          => /\ kResult' = TRUE
                   => kGateway' # None /\ kGateway'.port > 0
             /\ kResult' = FALSE => ~kZeroconf' /\ ~kBrowser']_vars

(***************************************************************************)
(* The legacy gateway's choice of model (SpecSelect)                       *)
(***************************************************************************)
\* requested_model names a tier of MODELS.
ValidRequested(requested_model) ==
    /\ requested_model # None
    /\ \E t \in Tiers : TierNames[t] = requested_model.name

\* max(1, floor(words / 0.75))
EstimatedTokens(words) ==
    IF (4 * words) \div 3 < 1 THEN 1 ELSE (4 * words) \div 3

\* C33: with no valid requested model, fewer than 50 estimated tokens give
\* the cheap model, 50 to 200 tokens the balanced model, more than 200
\* tokens the premium model.
C33_BandsByTokens ==
    (selResult # None /\ ~ValidRequested(selRequested))
    => LET tokens == EstimatedTokens(selWords) IN
       /\ tokens < 50 => selResult.tier = "cheap"
       /\ (50 <= tokens /\ tokens <= 200) => selResult.tier = "balanced"
       /\ tokens > 200 => selResult.tier = "premium"

(***************************************************************************)
(* The legacy gateway's usage ledger and rate limit (SpecLegacy)           *)
(***************************************************************************)
TotalRows(table) == SumOver(Rows, table)

\* The requests sent upstream within the hour before time.
ForwardedInWindow(sent, time) ==
    SumOver({t \in Timestamps : t > time - Hour}, sent)

C39_HourlyLimitHolds ==
    /\ ForwardedInWindow(forwards, now) <= MaxRequestsPerHour
    /\ \A r \in Requests :
          (qpc[r] # "idle" /\ qSeen[r] >= MaxRequestsPerHour)
             => qResult[r] = 429 /\ ~qForwarded[r]

\* C40: a pipe call whose primary request failed with ENABLE_FAILOVER on
\* sends its further requests to other services than the primary, to each at
\* most once, in ascending order of the priority recorded for the model; it
\* returns the first successful response and returns 'All Saturn services
\* failed', with the last error, only after every fallback failed.  With
\* ENABLE_FAILOVER off it sends exactly one request.
C40_AscendingPriority ==
    /\ \A i, j \in 1..Len(pFallbacks) :
          i < j => pFallbacks[i].recorded <= pFallbacks[j].recorded
    /\ \A i \in 2..Len(pRequests) :
          pRequests[i].service = pFallbacks[i - 1].name

C40_NoSecondPrimary ==
    \A i \in 2..Len(pRequests) : pRequests[i].service # pPrimary

C40_EachFallbackOnce ==
    \A i, j \in 1..Len(pRequests) :
        pRequests[i].service = pRequests[j].service => i = j

C40_FirstSuccessReturned ==
    /\ \A i \in 1..(Len(pRequests) - 1) :
          ~MakeRequestOk(pRequests[i].result)
    /\ (ppc = "done" /\ pRequests # <<>>
           /\ MakeRequestOk(pRequests[Len(pRequests)].result))
          => pResult = PipeResponse(pRequests[Len(pRequests)].service)

C40_AllFailedLast ==
    (ppc = "done" /\ pResult.kind = "error" /\ pResult.what = "all_failed")
        => /\ pFailover
           /\ Len(pRequests) = Len(pFallbacks) + 1
           /\ \A i \in 1..Len(pFallbacks) :
                 pRequests[i + 1].service = pFallbacks[i].name
           /\ \A i \in 1..Len(pRequests) :
                 ~MakeRequestOk(pRequests[i].result)
           /\ pResult.last_error = [error |-> pRequests[Len(pRequests)].result]

C40_OneRequestWithoutFailover ==
    (~pFailover /\ ppc = "done" /\ pRequests # <<>>) => Len(pRequests) = 1

C40_FailoverOnceEach ==
    /\ C40_AscendingPriority
    /\ C40_NoSecondPrimary
    /\ C40_EachFallbackOnce
    /\ C40_FirstSuccessReturned
    /\ C40_AllFailedLast
    /\ C40_OneRequestWithoutFailover
====
